---- MODULE Spec2Model ----
(***************************************************************************)
(* A model of the Proof-of-History ledger core: the hash-chain entry       *)
(* (ledger/src/entry.rs), the older event log (src/log.rs), the tick-count *)
(* auditor and the accountant (src/accountant.rs).                         *)
(*                                                                         *)
(* SHA-256 is modelled as a collision-free function: a hash is the term    *)
(* that produced it, written as a sequence of naturals in prefix notation  *)
(* (a tag followed by the arguments), so two hashes are equal exactly when *)
(* they were computed the same way from the same inputs.                   *)
(*                                                                         *)
(* Each subsystem has its own specification (SpecEntry, SpecLog, SpecTick, *)
(* SpecAcct); the variables of the other subsystems stay at their initial  *)
(* values.                                                                 *)
(***************************************************************************)
EXTENDS Integers, Sequences, FiniteSets, TLC

VARIABLES
    start_hash,     \* entry.rs: the anchor the slice is verified against
    entries,        \* entry.rs: the entry slice under construction / attack
    phase,          \* entry.rs: "build", "verified", "tampered", "reverified", "panicked"
    ev,             \* entry.rs: the last constructor call / attack and the verdicts seen
    vres,           \* entry.rs: the verdicts of the last verification
    log_start,      \* log.rs: the start hash of the event log
    log_entries,    \* log.rs: the slice of Entry<T>, one event each
    log_pc,         \* log.rs: "build", "attacked", "verify"
    par_done,       \* log.rs: the pairs verify_slice's workers have checked
    par_res,        \* log.rs: verify_slice's verdict: "running", "true", "false"
    seq_idx,        \* log.rs: the pair verify_slice_seq checks next
    seq_res,        \* log.rs: verify_slice_seq's verdict
    tick_slice,     \* auditor: the entry slice being audited
    tick_hash_count,\* auditor: the carry, kept by the caller between slices
    tick_pc,        \* auditor: "build", "audited", "build2", "audited2"
    tick_ev,        \* auditor: the last call's hashes_per_tick, carry-in and verdict
    overflow_checks,\* accountant: the build checks integer overflow (debug profile)
    acc,            \* accountant: balances, pending, time_sources, last_time, signatures
    acc2,           \* accountant: a second accountant fed the same input
    acct_pc,        \* accountant: "new", "replay", "running", "panicked"
    acct_todo,      \* accountant: new_from_entries' log, then the events left to replay
    acct_ops,       \* accountant: the number of calls made on the running accountant
    acct_ev,        \* accountant: the last call, its result and the map orders met
    hist_open,      \* accountant: the historian's thread still receives events
    acct_log,       \* accountant: the entries new_from_entries was given
    acct_read,      \* accountant: what the latest get_balance call returned
    hist_start,     \* historian: the start hash given to create_logger
    hist_ms,        \* historian: ms_per_tick is Some
    hist,           \* historian: the logger thread's locals and its return value
    hist_in,        \* historian: the events in the event channel
    hist_in_open,   \* historian: the event channel's sender has not been dropped
    hist_out,       \* historian: the entries sent into the entry channel
    hist_out_open,  \* historian: the entry channel's receiver has not been dropped
    hist_sent,      \* historian: the events the clients have sent, in order
    er_window,      \* erasure: the window, a data and a coding blob per slot
    er_orig,        \* erasure: the window as generate_coding left it
    er_before,      \* erasure: the window as it was when recover was called
    er_pc,          \* erasure: "fill", "coded", "recovered"
    er_res,         \* erasure: what recover returned, and the blocks it examined
    er_call,        \* erasure: the last call of a block function and its result
    chan_acct,      \* channels: the event process_transaction is blocked sending
    chan_logger,    \* channels: the entry the logger thread is blocked sending
    chan_n          \* channels: the number of transactions submitted so far

entryVars == <<start_hash, entries, phase, ev, vres>>

logVars == <<log_start, log_entries, log_pc, par_done, par_res, seq_idx, seq_res>>

tickVars == <<tick_slice, tick_hash_count, tick_pc, tick_ev>>

acctVars ==
    <<overflow_checks, acc, acc2, acct_pc, acct_todo, acct_ops, acct_ev, hist_open,
      acct_log, acct_read>>

histVars ==
    <<hist_start, hist_ms, hist, hist_in, hist_in_open, hist_out, hist_out_open,
      hist_sent>>

erVars == <<er_window, er_orig, er_before, er_pc, er_res, er_call>>

chanVars == <<chan_acct, chan_logger, chan_n>>

vars == <<entryVars, logVars, tickVars, acctVars, histVars, erVars, chanVars>>

\* What each subsystem leaves alone
notEntry == <<logVars, tickVars, acctVars, histVars, erVars, chanVars>>
notLog == <<entryVars, tickVars, acctVars, histVars, erVars, chanVars>>
notTick == <<entryVars, logVars, acctVars, histVars, erVars, chanVars>>
notAcct == <<entryVars, logVars, tickVars, histVars, erVars, chanVars>>
notHist == <<entryVars, logVars, tickVars, acctVars, erVars, chanVars>>
notEr == <<entryVars, logVars, tickVars, acctVars, histVars, chanVars>>
notChan == <<entryVars, logVars, tickVars, acctVars, erVars>>

-----------------------------------------------------------------------------
(* Bounds of the model *)

MaxEntries == 2
MaxHashes == 2
MaxLogEntries == 3
MaxTickEntries == 3
MaxHashesPerTick == 3
BalanceBits == 3
MaxAcctOps == 2
MaxHistSends == 3
MaxHistHashes == 2
MaxHistTicks == 1
ErBlocks == 2
MaxErased == 6
MaxBlockArgs == 2
ChannelCap == 2

-----------------------------------------------------------------------------
(* 4.A Hash primitives *)

\* A hash that is no output of the hash function reachable here: Hash::default()
\* is HashBase(0).
HashBase(i) == <<0, i>>

HashDefault == HashBase(0)

\* sha(bytes of one hash)
sha(h) == <<1>> \o h

\* sha(a || b): hashv of two 32-byte values (Poh::record's mixin, a Merkle node)
mix(h, m) == <<2>> \o h \o m

\* sha(signature bytes)
sha_sig(sig) == <<3, sig>>

RECURSIVE chain(_, _)
chain(h, k) == IF k = 0 THEN h ELSE chain(sha(h), k - 1)

saturating_sub(a, b) == IF a >= b THEN a - b ELSE 0

\* Poh::new(start, None) followed by hash(k): k sequential hashes
PohHash(h, k) == chain(h, k)

\* Poh::tick(): one more hash
PohTick(h) == sha(h)

\* Poh::record(mixin): the hash of the current hash extended with the mixin
PohRecord(h, mixin) == mix(h, mixin)

-----------------------------------------------------------------------------
(* 4.D Merkle signature digest *)

RECURSIVE FlattenSignatures(_)
FlattenSignatures(txs) ==
    IF txs = <<>> THEN <<>>
    ELSE Head(txs).signatures \o FlattenSignatures(Tail(txs))

MerkleLevel(level) ==
    [i \in 1..((Len(level) + 1) \div 2) |->
        mix(level[2 * i - 1],
            IF 2 * i <= Len(level) THEN level[2 * i] ELSE level[2 * i - 1])]

RECURSIVE MerkleReduce(_)
MerkleReduce(level) ==
    IF Len(level) = 1 THEN level[1] ELSE MerkleReduce(MerkleLevel(level))

\* MerkleTree::new(&signatures).get_root(): None for no signature
MerkleRootOpt(sigs) ==
    IF sigs = <<>> THEN <<>>
    ELSE <<MerkleReduce([i \in 1..Len(sigs) |-> sha_sig(sigs[i])])>>

\* A digest that sorts the signatures before building the tree
hash_transactions_sorted(transactions) ==
    LET root == MerkleRootOpt(SortSeq(FlattenSignatures(transactions),
                                      LAMBDA a, b : a < b))
    IN  IF root # <<>> THEN root[1] ELSE HashDefault

hash_transactions(transactions) ==
    LET root == MerkleRootOpt(FlattenSignatures(transactions))
    IN  IF root # <<>> THEN root[1] ELSE HashDefault

-----------------------------------------------------------------------------
(* 4.B Entry construction and verification (ledger/src/entry.rs) *)

Entry(n, h, txs) == [num_hashes |-> n, hash |-> h, transactions |-> txs]

next_hash(start, num_hashes, transactions) ==
    IF num_hashes = 0 /\ transactions = <<>> THEN start
    ELSE LET h == PohHash(start, saturating_sub(num_hashes, 1))
         IN  IF transactions = <<>> THEN PohTick(h)
             ELSE PohRecord(h, hash_transactions(transactions))

\* Entry::new that forgets to mix the transactions into the hash
EntryNew_no_mixin(prev_hash, num_hashes, transactions) ==
    LET n == IF num_hashes = 0 /\ transactions # <<>> THEN 1 ELSE num_hashes
    IN  Entry(n, next_hash(prev_hash, n, <<>>), transactions)

\* Entry::new: a zero hash count with transactions is raised to 1
EntryNew(prev_hash, num_hashes, transactions) ==
    LET n == IF num_hashes = 0 /\ transactions # <<>> THEN 1 ELSE num_hashes
    IN  Entry(n, next_hash(prev_hash, n, transactions), transactions)

\* next_entry without its assertion
NextEntryAssert_removed(num_hashes, transactions) == TRUE

\* next_entry's assertion
NextEntryAssert(num_hashes, transactions) ==
    num_hashes > 0 \/ transactions = <<>>

\* next_entry, past its assertion
NextEntry(prev_hash, num_hashes, transactions) ==
    Entry(num_hashes, next_hash(prev_hash, num_hashes, transactions), transactions)

\* Entry::verify
EntryVerify(entry, start) ==
    entry.hash = next_hash(start, entry.num_hashes, entry.transactions)

is_tick(entry) == entry.transactions = <<>>

\* The hash an entry is verified against: genesis.chain(self).zip(self) pairs
\* entry i with entry i - 1, and the first entry with the anchor.
PredHash(slice, start, i) == IF i = 1 THEN start ELSE slice[i - 1].hash

\* verify_cpu that zips the slice with itself and never looks at the anchor
verify_cpu_no_genesis(slice, start) ==
    \A i \in 2..Len(slice) : EntryVerify(slice[i], PredHash(slice, start, i))

\* EntrySlice::verify_cpu: every pair verifies
verify_cpu(slice, start) ==
    \A i \in 1..Len(slice) : EntryVerify(slice[i], PredHash(slice, start, i))

\* The batched hashing API: out[i] becomes out[i] hashed iters[i] times
poh_verify_many(hashes, iters) ==
    [i \in 1..Len(hashes) |-> chain(hashes[i], iters[i])]

\* EntrySlice::start_verify. An absent Option is <<>>, Some(x) is <<x>>.
start_verify(slice, start, api) ==
    IF ~api
    THEN [has_hashes |-> FALSE, hashes |-> <<>>,
          verified |-> verify_cpu(slice, start), tx_hashes |-> <<>>]
    ELSE LET hashes == [i \in 1..Len(slice) |-> PredHash(slice, start, i)]
             num_hashes_vec ==
                 [i \in 1..Len(slice) |-> saturating_sub(slice[i].num_hashes, 1)]
             tx_hashes ==
                 [i \in 1..Len(slice) |->
                     IF slice[i].transactions = <<>> THEN <<>>
                     ELSE <<hash_transactions(slice[i].transactions)>>]
         IN  [has_hashes |-> TRUE,
              hashes |-> poh_verify_many(hashes, num_hashes_vec),
              verified |-> FALSE, tx_hashes |-> tx_hashes]

\* EntryVerifyState::finish_verify
finish_verify(st, slice) ==
    IF st.has_hashes
    THEN \A i \in 1..Len(slice) :
            IF slice[i].num_hashes = 0
            THEN st.hashes[i] = slice[i].hash
            ELSE IF st.tx_hashes[i] # <<>>
                 THEN PohRecord(st.hashes[i], st.tx_hashes[i][1]) = slice[i].hash
                 ELSE PohTick(st.hashes[i]) = slice[i].hash
    ELSE st.verified

\* EntrySlice::verify
verify(slice, start, api) == finish_verify(start_verify(slice, start, api), slice)

-----------------------------------------------------------------------------
(* The inputs of the entry model *)

\* Transactions: what the ledger hashes of a transaction is its signature list.
TxA == [id |-> 1, signatures |-> <<1>>]
TxB == [id |-> 2, signatures |-> <<2>>]
\* Transaction::new(&[], ..): a transaction nobody signed (test_verify_tick_hash_count)
TxNoSig == [id |-> 3, signatures |-> <<>>]

TxLists ==
    { <<>>, <<TxNoSig>>, <<TxA, TxB>>, <<TxA, TxNoSig>>, <<TxA, TxB, TxA>> }

Anchors == { HashDefault, sha(HashDefault) }

Tip == IF entries = <<>> THEN start_hash ELSE entries[Len(entries)].hash

\* The hash values an attacker writes into entry i
AttackHashes(i) ==
    { PredHash(entries, start_hash, i), sha(entries[i].hash), HashDefault }

NoEv == [op |-> "init", n |-> 0, txs |-> <<>>, prev |-> HashDefault, idx |-> 0,
         pre_cpu |-> FALSE, pre_gpu |-> FALSE]

NoRes == [cpu |-> FALSE, gpu |-> FALSE, nogpu |-> FALSE]

Swap(seq, j, k) ==
    [x \in 1..Len(seq) |-> IF x = j THEN seq[k] ELSE IF x = k THEN seq[j] ELSE seq[x]]

-----------------------------------------------------------------------------
(* The entry state machine: build a slice with the constructors, verify it, *)
(* attack one entry, verify again.                                          *)

StartEntry ==
    /\ entries = <<>>
    /\ phase = "build"
    /\ ev = NoEv
    /\ vres = NoRes

StartLog ==
    /\ log_entries = <<>>
    /\ log_pc = "build"
    /\ par_done = {}
    /\ par_res = "running"
    /\ seq_idx = 1
    /\ seq_res = "running"

NoTickEv == [hashes_per_tick |-> 0, carry_in |-> 0, ok |-> FALSE]

StartTick ==
    /\ tick_slice = <<>>
    /\ tick_hash_count = 0
    /\ tick_pc = "build"
    /\ tick_ev = NoTickEv

IdleTick == StartTick

NoAcctEv ==
    [op |-> "none", kind |-> "none", res |-> "Ok", order |-> <<>>, order2 |-> <<>>,
     settled |-> 0]

\* The fields of a new Accountant (new_from_entries, before the first event)
EmptyAccountant ==
    [balances |-> <<>>, pending |-> <<>>, time_sources |-> {},
     last_time |-> 0, signatures |-> {}, panicked |-> FALSE]

\* No get_balance call has returned since the last write
NoRead == [called |-> FALSE, key |-> "", val |-> <<>>, applied |-> 0]

IdleAcct ==
    /\ overflow_checks = FALSE
    /\ acc = EmptyAccountant
    /\ acc2 = EmptyAccountant
    /\ acct_pc = "new"
    /\ acct_todo = <<>>
    /\ acct_ops = 0
    /\ acct_ev = NoAcctEv
    /\ hist_open = TRUE
    /\ acct_log = <<>>
    /\ acct_read = NoRead

\* The locals of create_logger's thread before its first loop
NewLogger(start) ==
    [end_hash |-> start, num_hashes |-> 0, num_ticks |-> 0, signatures |-> {},
     exit |-> <<>>]

StartHist ==
    /\ hist = NewLogger(hist_start)
    /\ hist_in = <<>>
    /\ hist_in_open = TRUE
    /\ hist_out = <<>>
    /\ hist_out_open = TRUE
    /\ hist_sent = <<>>

IdleHist == hist_start = HashDefault /\ hist_ms = FALSE /\ StartHist

NoErRes == [res |-> "none", examined |-> {}, consumed |-> 0, received |-> 0]

NoErCall ==
    [fn |-> "none", data |-> <<>>, coding |-> <<>>, res |-> "none", invoked |-> FALSE]

IdleEr ==
    /\ er_window = <<>>
    /\ er_orig = <<>>
    /\ er_before = <<>>
    /\ er_pc = "fill"
    /\ er_res = NoErRes
    /\ er_call = NoErCall

IdleChan ==
    /\ chan_acct = <<>>
    /\ chan_logger = <<>>
    /\ chan_n = 0

IdleEntry == start_hash = HashDefault /\ StartEntry

IdleLog == log_start = HashDefault /\ StartLog

InitEntry ==
    /\ start_hash \in Anchors
    /\ StartEntry
    /\ IdleLog
    /\ IdleTick
    /\ IdleAcct
    /\ IdleHist
    /\ IdleEr
    /\ IdleChan

\* Entry::new(&tip, n, txs)
CallEntryNew(n, txs) ==
    /\ phase = "build"
    /\ Len(entries) < MaxEntries
    /\ entries' = Append(entries, EntryNew(Tip, n, txs))
    /\ ev' = [NoEv EXCEPT !.op = "Entry::new", !.n = n, !.txs = txs, !.prev = Tip]
    /\ UNCHANGED <<start_hash, phase, vres, notEntry>>

\* next_entry(&tip, n, txs): panics when its assertion fails
CallNextEntry(n, txs) ==
    /\ phase = "build"
    /\ Len(entries) < MaxEntries
    /\ ev' = [NoEv EXCEPT !.op = "next_entry", !.n = n, !.txs = txs, !.prev = Tip]
    /\ IF NextEntryAssert(n, txs)
       THEN /\ entries' = Append(entries, NextEntry(Tip, n, txs))
            /\ UNCHANGED phase
       ELSE /\ phase' = "panicked"
            /\ UNCHANGED entries
    /\ UNCHANGED <<start_hash, vres, notEntry>>

\* entries.verify(&start_hash), on the CPU path and through the batched API
Verdicts ==
    [cpu |-> verify_cpu(entries, start_hash),
     gpu |-> verify(entries, start_hash, TRUE),
     nogpu |-> verify(entries, start_hash, FALSE)]

VerifySlice ==
    /\ phase = "build"
    /\ phase' = "verified"
    /\ vres' = Verdicts
    /\ ev' = [NoEv EXCEPT !.op = "verify"]
    /\ UNCHANGED <<start_hash, entries, notEntry>>

\* e.transactions[j] and e.transactions[k] exchanged (test_transaction_reorder_attack)
AttackSwap(i, j, k) ==
    /\ phase = "verified"
    /\ i \in 1..Len(entries)
    /\ j \in 1..Len(entries[i].transactions)
    /\ k \in 1..Len(entries[i].transactions)
    /\ j < k
    /\ entries' = [entries EXCEPT ![i].transactions = Swap(@, j, k)]
    /\ ev' = [NoEv EXCEPT !.op = "swap", !.idx = i, !.txs = entries[i].transactions,
                          !.pre_cpu = vres.cpu, !.pre_gpu = vres.gpu]
    /\ phase' = "tampered"
    /\ UNCHANGED <<start_hash, vres, notEntry>>

\* bad_ticks[i].hash = h (test_verify_slice)
AttackHash(i, h) ==
    /\ phase = "verified"
    /\ i \in 1..Len(entries)
    /\ h # entries[i].hash
    /\ entries' = [entries EXCEPT ![i].hash = h]
    /\ ev' = [NoEv EXCEPT !.op = "sethash", !.idx = i, !.prev = entries[i].hash,
                          !.pre_cpu = vres.cpu, !.pre_gpu = vres.gpu]
    /\ phase' = "tampered"
    /\ UNCHANGED <<start_hash, vres, notEntry>>

AttackHashAt(i) ==
    /\ i \in 1..Len(entries)
    /\ \E h \in AttackHashes(i) : AttackHash(i, h)

\* An entry whose num_hashes field was rewritten before it reached the verifier
AttackNumHashes(i, n) ==
    /\ phase = "verified"
    /\ i \in 1..Len(entries)
    /\ n # entries[i].num_hashes
    /\ entries' = [entries EXCEPT ![i].num_hashes = n]
    /\ ev' = [NoEv EXCEPT !.op = "setnum", !.idx = i, !.n = entries[i].num_hashes,
                          !.pre_cpu = vres.cpu, !.pre_gpu = vres.gpu]
    /\ phase' = "tampered"
    /\ UNCHANGED <<start_hash, vres, notEntry>>

VerifyAgain ==
    /\ phase = "tampered"
    /\ phase' = "reverified"
    /\ vres' = Verdicts
    /\ UNCHANGED <<start_hash, entries, ev, notEntry>>

NextEntryModel ==
    \/ \E n \in 0..MaxHashes, txs \in TxLists : CallEntryNew(n, txs)
    \/ \E n \in 0..MaxHashes, txs \in TxLists : CallNextEntry(n, txs)
    \/ VerifySlice
    \/ \E i \in 1..MaxEntries, j \in 1..3, k \in 1..3 : AttackSwap(i, j, k)
    \/ \E i \in 1..MaxEntries : AttackHashAt(i)
    \/ \E i \in 1..MaxEntries, n \in 0..MaxHashes : AttackNumHashes(i, n)
    \/ VerifyAgain

SpecEntry == InitEntry /\ [][NextEntryModel]_vars

-----------------------------------------------------------------------------
(* Claims about the entry model *)

Verified == phase \in {"verified", "reverified"}

LastEntry == entries[Len(entries)]

\* C1: for every anchor H, hash count n and transaction list txs, the entry
\* built by Entry::new(H, n, txs) verifies against H, by Entry::verify and as a
\* one-element slice (with and without the batched API).
C1_EntryNewVerifies ==
    (phase = "build" /\ ev.op = "Entry::new") =>
        /\ EntryVerify(LastEntry, ev.prev)
        /\ verify(<<LastEntry>>, ev.prev, FALSE)
        /\ verify(<<LastEntry>>, ev.prev, TRUE)

C1_Witness ==
    /\ phase = "build" /\ ev.op = "Entry::new"
    /\ ev.n = 0 /\ ev.txs = <<TxA, TxB>> /\ Len(entries) = 2
    /\ EntryVerify(LastEntry, ev.prev)

\* C2 as claimed: in a chain that verifies, swapping any two transactions of
\* an entry makes verification fail.
C2_AnySwapFails ==
    (phase = "reverified" /\ ev.op = "swap" /\ ev.pre_cpu) => ~vres.cpu

SwapChangedSignatures ==
    /\ ev.op = "swap"
    /\ FlattenSignatures(ev.txs) # FlattenSignatures(entries[ev.idx].transactions)

\* C2 amended: in a chain that verifies on the CPU path, a swap of two
\* transactions of an entry that changes the entry's ordered signature sequence
\* makes CPU verification fail.
C2_SignatureOrderSwapFails ==
    (phase = "reverified" /\ SwapChangedSignatures /\ ev.pre_cpu) => ~vres.cpu

C2_Witness ==
    /\ phase = "reverified" /\ SwapChangedSignatures /\ ev.pre_cpu
    /\ ev.txs = <<TxA, TxB>> /\ ~vres.cpu

\* C4: verification through the batched API returns the same boolean as the CPU
\* path, for every num_hashes (0 included) and empty or non-empty transactions.
C4_AcceleratorAgreesWithCpu ==
    Verified => (vres.gpu = vres.cpu)

\* The entry invariant of the data model against predecessor hash pred
EntryInvariant(e, pred) ==
    IF e.transactions = <<>>
    THEN IF e.num_hashes = 0 THEN e.hash = pred
         ELSE e.hash = chain(pred, e.num_hashes)
    ELSE /\ e.num_hashes >= 1
         /\ e.hash = mix(chain(pred, e.num_hashes - 1),
                         hash_transactions(e.transactions))

\* C5: slice verification returns true iff every entry satisfies the entry
\* invariant against its predecessor's hash; an entry carrying transactions
\* with num_hashes = 0 is never accepted.
C5_VerifyIffEntryInvariant ==
    Verified =>
        (vres.cpu <=>
            \A i \in 1..Len(entries) :
                EntryInvariant(entries[i], PredHash(entries, start_hash, i)))

\* C6: in a slice that verifies, replacing the hash of one entry by a different
\* value makes verification of the slice return false (on either path).
C6_HashChangeDetected ==
    (phase = "reverified" /\ ev.op = "sethash") =>
        /\ ev.pre_cpu => ~vres.cpu
        /\ ev.pre_gpu => ~vres.gpu

C6_Witness ==
    /\ phase = "reverified" /\ ev.op = "sethash" /\ ev.pre_cpu /\ ev.pre_gpu
    /\ Len(entries) = 2 /\ ev.idx = 1
    /\ entries[1].hash = start_hash /\ entries[1].transactions # <<>>
    /\ ~vres.cpu /\ ~vres.gpu

ZeroHashesWithTransactions == ev.n = 0 /\ ev.txs # <<>>

\* C7 as claimed: every entry constructor (next_entry and Entry::new) panics
\* when asked for 0 hashes with a non-empty transaction list.
C7_EveryConstructorPanics ==
    (ev.op \in {"Entry::new", "next_entry"} /\ ZeroHashesWithTransactions)
        => phase = "panicked"

\* C7 amended: next_entry panics on 0 hashes with transactions and appends no
\* entry; Entry::new does not panic: it returns an entry with num_hashes = 1
\* holding the transactions.
C7_OnlyNextEntryPanics ==
    ZeroHashesWithTransactions =>
        /\ ev.op = "next_entry" => (phase = "panicked" /\ Tip = ev.prev)
        /\ (ev.op = "Entry::new" /\ phase = "build") =>
               /\ LastEntry.num_hashes = 1
               /\ LastEntry.transactions = ev.txs

C7_Witness ==
    /\ phase = "panicked" /\ ev.op = "next_entry" /\ ZeroHashesWithTransactions
    /\ Len(entries) = 1

-----------------------------------------------------------------------------
(* The event log (src/log.rs): one event per entry *)

\* sha(id || signature bytes)
extend_and_hash(id, val) == <<4>> \o id \o <<val>>

\* The signature a key pair produces over the data of a claim
sign_claim_data(data) == 10 + data

Tick == [kind |-> "Tick", data |-> 0, sig |-> 0]

\* Event::new_claim(key, data, sig)
new_claim(data, sig) == [kind |-> "Claim", data |-> data, sig |-> sig]

\* get_signature: None for a tick
get_signature(event) == IF event.kind = "Tick" THEN <<>> ELSE <<event.sig>>

\* verify_event: the signature of a claim is over the data it carries
verify_event(event) ==
    event.kind = "Tick" \/ event.sig = sign_claim_data(event.data)

log_next_hash(start, num_hashes, event) ==
    LET sig == get_signature(event)
        start_index == IF sig # <<>> THEN 1 ELSE 0
        id == chain(start, saturating_sub(num_hashes, start_index))
    IN  IF sig # <<>> THEN extend_and_hash(id, sig[1]) ELSE id

LogEntry(n, id, event) == [num_hashes |-> n, id |-> id, event |-> event]

create_entry(start, cur_hashes, event) ==
    LET sig == get_signature(event)
        num_hashes == cur_hashes + (IF sig # <<>> THEN 1 ELSE 0)
    IN  LogEntry(num_hashes, log_next_hash(start, 0, event), event)

next_tick(start, num_hashes) ==
    LogEntry(num_hashes, log_next_hash(start, num_hashes, Tick), Tick)

verify_entry(entry, start) ==
    IF ~verify_event(entry.event) THEN FALSE
    ELSE entry.id = log_next_hash(start, entry.num_hashes, entry.event)

\* verify_slice pairs the slice with a genesis tick given the wrong hash
par_pair_start_default(events, start, i) ==
    IF i = 1 THEN HashDefault ELSE events[i - 1].id

\* verify_slice: genesis.par_iter().chain(events).zip(events), the id of x0
par_pair_start(events, start, i) == IF i = 1 THEN start ELSE events[i - 1].id

\* verify_slice_seq: genesis.iter().chain(events).zip(events), the id of x0
seq_pair_start(events, start, i) == IF i = 1 THEN start ELSE events[i - 1].id

LogEvents ==
    { Tick, new_claim(1, sign_claim_data(1)), new_claim(2, sign_claim_data(2)),
      new_claim(2, sign_claim_data(1)) }

LogTip == IF log_entries = <<>> THEN log_start ELSE log_entries[Len(log_entries)].id

InitLog ==
    /\ log_start \in Anchors
    /\ StartLog
    /\ IdleEntry
    /\ IdleTick
    /\ IdleAcct
    /\ IdleHist
    /\ IdleEr
    /\ IdleChan

\* create_entries: create_entry_mut(&mut id, &mut 0, event) for the next event
LogCreateEntry(event) ==
    /\ log_pc = "build"
    /\ Len(log_entries) < MaxLogEntries
    /\ log_entries' = Append(log_entries, create_entry(LogTip, 0, event))
    /\ UNCHANGED <<log_start, log_pc, par_done, par_res, seq_idx, seq_res, notLog>>

\* next_ticks: the next tick, num_hashes after the tip
LogNextTick(n) ==
    /\ log_pc = "build"
    /\ Len(log_entries) < MaxLogEntries
    /\ log_entries' = Append(log_entries, next_tick(LogTip, n))
    /\ UNCHANGED <<log_start, log_pc, par_done, par_res, seq_idx, seq_res, notLog>>

\* bad_ticks[i].id = one (verify_slice_generic)
LogAttackId(i) ==
    /\ log_pc = "build"
    /\ i \in 1..Len(log_entries)
    /\ log_entries' = [log_entries EXCEPT ![i].id = sha(HashDefault)]
    /\ log_pc' = "attacked"
    /\ UNCHANGED <<log_start, par_done, par_res, seq_idx, seq_res, notLog>>

\* The events of entries i and i + 1 exchanged (test_reorder_attack)
LogAttackReorder(i) ==
    /\ log_pc = "build"
    /\ i \in 1..(Len(log_entries) - 1)
    /\ log_entries' = [log_entries EXCEPT ![i].event = log_entries[i + 1].event,
                                          ![i + 1].event = log_entries[i].event]
    /\ log_pc' = "attacked"
    /\ UNCHANGED <<log_start, par_done, par_res, seq_idx, seq_res, notLog>>

\* verify_slice and verify_slice_seq are called on the slice
LogStartVerify ==
    /\ log_pc \in {"build", "attacked"}
    /\ log_pc' = "verify"
    /\ UNCHANGED <<log_start, log_entries, par_done, par_res, seq_idx, seq_res, notLog>>

\* verify_slice: a worker checks one pair, in any order; `all` stops at the
\* first pair that fails
ParCheck(i) ==
    /\ log_pc = "verify"
    /\ par_res = "running"
    /\ i \in (1..Len(log_entries)) \ par_done
    /\ IF verify_entry(log_entries[i], par_pair_start(log_entries, log_start, i))
       THEN par_done' = par_done \cup {i} /\ UNCHANGED par_res
       ELSE par_res' = "false" /\ UNCHANGED par_done
    /\ UNCHANGED <<log_start, log_entries, log_pc, seq_idx, seq_res, notLog>>

\* verify_slice: every pair passed
ParAll ==
    /\ log_pc = "verify"
    /\ par_res = "running"
    /\ par_done = 1..Len(log_entries)
    /\ par_res' = "true"
    /\ UNCHANGED <<log_start, log_entries, log_pc, par_done, seq_idx, seq_res, notLog>>

\* verify_slice_seq: the next pair in order, stopping at the first that fails
SeqStep ==
    /\ log_pc = "verify"
    /\ seq_res = "running"
    /\ IF seq_idx > Len(log_entries)
       THEN seq_res' = "true" /\ UNCHANGED seq_idx
       ELSE IF verify_entry(log_entries[seq_idx],
                            seq_pair_start(log_entries, log_start, seq_idx))
            THEN seq_idx' = seq_idx + 1 /\ UNCHANGED seq_res
            ELSE seq_res' = "false" /\ UNCHANGED seq_idx
    /\ UNCHANGED <<log_start, log_entries, log_pc, par_done, par_res, notLog>>

NextLog ==
    \/ \E event \in LogEvents : LogCreateEntry(event)
    \/ \E n \in 0..MaxHashes : LogNextTick(n)
    \/ \E i \in 1..MaxLogEntries : LogAttackId(i)
    \/ \E i \in 1..MaxLogEntries : LogAttackReorder(i)
    \/ LogStartVerify
    \/ \E i \in 1..MaxLogEntries : ParCheck(i)
    \/ ParAll
    \/ SeqStep

SpecLog == InitLog /\ [][NextLog]_vars

\* C3: for every entry slice and anchor, the data-parallel verifier
\* (verify_slice) returns the same boolean as the serial reference verifier
\* (verify_slice_seq), the empty slice included.
C3_ParallelAgreesWithSerial ==
    (par_res # "running" /\ seq_res # "running") => par_res = seq_res

\* Both verdicts of a slice whose second of three pairs is the only bad one
C3_Witness ==
    /\ par_res = "false" /\ seq_res = "false"
    /\ Len(log_entries) = 3 /\ 3 \in par_done /\ seq_idx = 2

C3_WitnessEmpty ==
    /\ par_res = "true" /\ seq_res = "true" /\ log_entries = <<>>

-----------------------------------------------------------------------------
(* 4.F Tick-count auditor (ledger/src/entry.rs, verify_tick_hash_count) *)

\* The loop over the slice from entry i on, the carry being c
RECURSIVE TickLoop(_, _, _, _)
TickLoop(slice, i, c, hashes_per_tick) ==
    IF i > Len(slice) THEN [ok |-> c < hashes_per_tick, count |-> c]
    ELSE LET c1 == c + slice[i].num_hashes
         IN  IF is_tick(slice[i])
             THEN IF c1 # hashes_per_tick THEN [ok |-> FALSE, count |-> c1]
                  ELSE TickLoop(slice, i + 1, 0, hashes_per_tick)
             ELSE TickLoop(slice, i + 1, c1, hashes_per_tick)

\* The auditor without the early return for hashes_per_tick = 0
verify_tick_hash_count_no_disable(slice, count, hashes_per_tick) ==
    TickLoop(slice, 1, count, hashes_per_tick)

\* The auditor accepting a full carry after the last entry
verify_tick_hash_count_le(slice, count, hashes_per_tick) ==
    IF hashes_per_tick = 0 THEN [ok |-> TRUE, count |-> count]
    ELSE LET r == TickLoop(slice, 1, count, hashes_per_tick)
         IN  IF ~r.ok /\ r.count = hashes_per_tick
             THEN [ok |-> TRUE, count |-> r.count] ELSE r

\* verify_tick_hash_count(&mut tick_hash_count, hashes_per_tick): the verdict
\* and the carry it leaves
verify_tick_hash_count(slice, count, hashes_per_tick) ==
    IF hashes_per_tick = 0 THEN [ok |-> TRUE, count |-> count]
    ELSE TickLoop(slice, 1, count, hashes_per_tick)

\* Entry::new_tick(n, &Hash::default()) and a transaction entry of n hashes
TickEntries ==
    { Entry(n, HashDefault, txs) : n \in 0..MaxHashes, txs \in {<<>>, <<TxNoSig>>} }

InitTick ==
    /\ StartTick
    /\ IdleEntry
    /\ IdleLog
    /\ IdleAcct
    /\ IdleHist
    /\ IdleEr
    /\ IdleChan

TickAppend(e) ==
    /\ tick_pc \in {"build", "build2"}
    /\ Len(tick_slice) < MaxTickEntries
    /\ tick_slice' = Append(tick_slice, e)
    /\ UNCHANGED <<tick_hash_count, tick_pc, tick_ev, notTick>>

\* slice.verify_tick_hash_count(&mut tick_hash_count, hashes_per_tick)
TickAudit(hashes_per_tick) ==
    /\ tick_pc \in {"build", "build2"}
    /\ LET r == verify_tick_hash_count(tick_slice, tick_hash_count, hashes_per_tick)
       IN  /\ tick_hash_count' = r.count
           /\ tick_ev' = [hashes_per_tick |-> hashes_per_tick,
                          carry_in |-> tick_hash_count, ok |-> r.ok]
    /\ tick_pc' = IF tick_pc = "build" THEN "audited" ELSE "audited2"
    /\ UNCHANGED <<tick_slice, notTick>>

\* The caller moves on to the next slice, keeping the carry
TickNextSlice ==
    /\ tick_pc = "audited"
    /\ tick_pc' = "build2"
    /\ tick_slice' = <<>>
    /\ UNCHANGED <<tick_hash_count, tick_ev, notTick>>

NextTick ==
    \/ \E e \in TickEntries : TickAppend(e)
    \/ \E h \in 0..MaxHashesPerTick : TickAudit(h)
    \/ TickNextSlice

SpecTick == InitTick /\ [][NextTick]_vars

Audited == tick_pc \in {"audited", "audited2"}

RECURSIVE SumHashes(_, _, _)
SumHashes(slice, a, b) ==
    IF a > b THEN 0 ELSE slice[a].num_hashes + SumHashes(slice, a + 1, b)

\* The last tick entry before position i, 0 when there is none
TickBefore(slice, i) ==
    LET T == {j \in 1..(i - 1) : is_tick(slice[j])}
    IN  IF T = {} THEN 0 ELSE CHOOSE j \in T : \A k \in T : k <= j

\* The carry once entry i has been added, when every earlier tick passed
CarryAt(slice, carry_in, i) ==
    LET t == TickBefore(slice, i)
    IN  (IF t = 0 THEN carry_in ELSE 0) + SumHashes(slice, t + 1, i)

BadTicks(slice, carry_in, hashes_per_tick) ==
    {i \in 1..Len(slice) :
        is_tick(slice[i]) /\ CarryAt(slice, carry_in, i) # hashes_per_tick}

\* C8: with hashes_per_tick > 0 the auditor adds each entry's num_hashes to the
\* carry in slice order; it returns false at the first tick entry where the
\* carry differs from hashes_per_tick, leaving the carry at the accumulated
\* value; the carry restarts at 0 after each passing tick; after the last entry
\* it returns true exactly when the carry is strictly below hashes_per_tick.
C8_TickHashCount ==
    (Audited /\ tick_ev.hashes_per_tick > 0) =>
        LET bad == BadTicks(tick_slice, tick_ev.carry_in, tick_ev.hashes_per_tick)
            n == Len(tick_slice)
        IN  IF bad # {}
            THEN LET first == CHOOSE i \in bad : \A k \in bad : i <= k
                 IN  /\ ~tick_ev.ok
                     /\ tick_hash_count = CarryAt(tick_slice, tick_ev.carry_in, first)
            ELSE /\ tick_hash_count =
                        (IF n = 0 THEN tick_ev.carry_in
                         ELSE IF is_tick(tick_slice[n]) THEN 0
                         ELSE CarryAt(tick_slice, tick_ev.carry_in, n))
                 /\ tick_ev.ok = (tick_hash_count < tick_ev.hashes_per_tick)

\* A second slice, audited with a carry left by the first: its first tick
\* passes thanks to the carry and its second tick fails
C8_Witness ==
    /\ tick_pc = "audited2" /\ tick_ev.hashes_per_tick = 2 /\ tick_ev.carry_in = 1
    /\ Len(tick_slice) = 3
    /\ is_tick(tick_slice[1]) /\ tick_slice[1].num_hashes = 1
    /\ ~is_tick(tick_slice[2]) /\ is_tick(tick_slice[3])
    /\ ~tick_ev.ok /\ tick_hash_count = 3

\* The carry reaches hashes_per_tick after the last entry: rejected
C8_WitnessFull ==
    /\ Audited /\ tick_ev.hashes_per_tick = 2 /\ tick_hash_count = 2
    /\ Len(tick_slice) = 2 /\ \A i \in 1..2 : ~is_tick(tick_slice[i])
    /\ ~tick_ev.ok

\* C9: when hashes_per_tick = 0 the auditor returns true for every slice and
\* leaves the carry unchanged.
C9_DisabledAuditPasses ==
    (Audited /\ tick_ev.hashes_per_tick = 0) =>
        (tick_ev.ok /\ tick_hash_count = tick_ev.carry_in)

C9_Witness ==
    /\ tick_pc = "audited2" /\ tick_ev.hashes_per_tick = 0 /\ tick_ev.ok
    /\ tick_ev.carry_in = 2 /\ tick_hash_count = 2
    /\ Len(tick_slice) = 2 /\ is_tick(tick_slice[2]) /\ tick_slice[2].num_hashes = 1

\* ---------------------------------------------------------------------------
\* Accountant (src/src/accountant.rs)
\* ---------------------------------------------------------------------------

\* i64, at the width BalanceBits
IntMin == -(2^(BalanceBits - 1))
IntMax == 2^(BalanceBits - 1) - 1
wrapping(x) == ((x - IntMin) % (2^BalanceBits)) + IntMin

Keys == {"alice", "bob"}
MintKey == "alice"
Assets == {-1, 1, 2}
Dates == {1, 2}

\* The dates of timestamp witnesses: epoch zero as well
WitnessDates == {0} \cup Dates

\* HashMap insert / remove
Put(f, k, v) == [x \in (DOMAIN f) \cup {k} |-> IF x = k THEN v ELSE f[x]]
Remove(f, k) == [x \in (DOMAIN f) \ {k} |-> f[x]]

\* The orders in which a HashMap with the key set S can be iterated
Perms(S) ==
    {s \in [1..Cardinality(S) -> S] : \A i, j \in 1..Cardinality(S) : i # j => s[i] # s[j]}

\* Plans: Action(Pay) and Race((condition, Pay), (condition, Pay))
Pay(asset, to) == [to |-> to, asset |-> asset]
NoPay == Pay(0, "")
NoCond == [type |-> "None", dt |-> 0, key |-> ""]
ConditionTimestamp(dt) == [type |-> "Timestamp", dt |-> dt, key |-> ""]
ConditionSignature(key) == [type |-> "Signature", dt |-> 0, key |-> key]
PlanEventTimestamp(dt) == [type |-> "Timestamp", dt |-> dt, key |-> ""]
PlanEventSignature(key) == [type |-> "Signature", dt |-> 0, key |-> key]

PlanAction(pay) ==
    [kind |-> "Action", cond |-> NoCond, pay |-> pay, cond2 |-> NoCond, pay2 |-> NoPay]

PlanRace(cond, pay, cond2, pay2) ==
    [kind |-> "Race", cond |-> cond, pay |-> pay, cond2 |-> cond2, pay2 |-> pay2]

is_satisfied(cond, event) ==
    \/ cond.type = "Signature" /\ event.type = "Signature" /\ cond.key = event.key
    \/ cond.type = "Timestamp" /\ event.type = "Timestamp" /\ cond.dt <= event.dt

\* Plan::process_event: the plan after the event; the call returns
\* is_action of that plan
process_event(plan, event) ==
    IF plan.kind # "Race" THEN plan
    ELSE IF is_satisfied(plan.cond, event) THEN PlanAction(plan.pay)
    ELSE IF is_satisfied(plan.cond2, event) THEN PlanAction(plan.pay2)
    ELSE plan

is_action(plan) == plan.kind = "Action"

\* Plan::verify: every branch spends exactly the transaction's asset
plan_verify(plan, spendable_assets) ==
    /\ plan.pay.asset = spendable_assets
    /\ plan.kind = "Race" => plan.pay2.asset = spendable_assets

\* Transactions; a signature is the data it signs
sign(from, plan, asset, last_id) == <<from, plan, asset, last_id>>

Transaction(from, plan, asset, last_id) ==
    [from |-> from, plan |-> plan, asset |-> asset, last_id |-> last_id,
     sig |-> sign(from, plan, asset, last_id)]

TransactionNew(from, to, asset, last_id) ==
    Transaction(from, PlanAction(Pay(asset, to)), asset, last_id)

TransactionNewOnDate(from, to, dt, asset, last_id) ==
    Transaction(from,
                PlanRace(ConditionTimestamp(dt), Pay(asset, to),
                         ConditionSignature(from), Pay(asset, from)),
                asset, last_id)

tr_verify(tr) ==
    /\ tr.sig = sign(tr.from, tr.plan, tr.asset, tr.last_id)
    /\ plan_verify(tr.plan, tr.asset)

\* Events of the log
NoTr == TransactionNew("", "", 0, 0)
EventTransaction(tr) ==
    [kind |-> "Transaction", tr |-> tr, from |-> "", dt |-> 0, tx_sig |-> NoTr.sig]
EventSignature(from, tx_sig) ==
    [kind |-> "Signature", tr |-> NoTr, from |-> from, dt |-> 0, tx_sig |-> tx_sig]
EventTimestamp(from, dt) ==
    [kind |-> "Timestamp", tr |-> NoTr, from |-> from, dt |-> dt, tx_sig |-> NoTr.sig]

AcctEntry(events) == [events |-> events]

Result(a, res) == [acc |-> a, res |-> res]

\* An i64 stored into balances[key] after an addition or a subtraction
store_i64(a, key, val) ==
    IF val \in IntMin..IntMax THEN [a EXCEPT !.balances = Put(a.balances, key, val)]
    ELSE IF overflow_checks THEN [a EXCEPT !.panicked = TRUE]
    ELSE [a EXCEPT !.balances = Put(a.balances, key, wrapping(val))]

get_balance(a, pubkey) ==
    IF pubkey \in DOMAIN a.balances THEN <<a.balances[pubkey]>> ELSE <<>>

unwrap_or(opt, default) == IF opt = <<>> THEN default ELSE opt[1]

is_deposit(allow_deposits, from, plan) ==
    IF is_action(plan) THEN allow_deposits /\ from = plan.pay.to ELSE FALSE

\* A payment that replaces the payee's balance
complete_transaction_overwrite(a, plan) ==
    IF a.panicked \/ ~is_action(plan) THEN a
    ELSE [a EXCEPT !.balances = Put(a.balances, plan.pay.to, plan.pay.asset)]

complete_transaction(a, plan) ==
    IF a.panicked \/ ~is_action(plan) THEN a
    ELSE IF plan.pay.to \in DOMAIN a.balances
         THEN store_i64(a, plan.pay.to, a.balances[plan.pay.to] + plan.pay.asset)
         ELSE [a EXCEPT !.balances = Put(a.balances, plan.pay.to, plan.pay.asset)]

\* A transaction whose dated plan is settled at submission
process_verified_transaction_no_wait(a, tr, allow_deposits) ==
    IF tr.sig \in a.signatures THEN Result(a, "InvalidTransferSignature")
    ELSE LET a1 == [a EXCEPT !.signatures = @ \cup {tr.sig}]
             a2 == IF ~is_deposit(allow_deposits, tr.from, tr.plan)
                      /\ tr.from \in DOMAIN a1.balances
                   THEN store_i64(a1, tr.from, a1.balances[tr.from] - tr.asset)
                   ELSE a1
             plan == process_event(tr.plan, PlanEventTimestamp(tr.plan.cond.dt))
         IN  IF a2.panicked THEN Result(a2, "Ok")
             ELSE IF ~is_action(plan)
             THEN Result([a2 EXCEPT !.pending = Put(a2.pending, tr.sig, plan)], "Ok")
             ELSE Result(complete_transaction(a2, plan), "Ok")

\* A transaction whose dated plan is stored whatever the time is
process_verified_transaction_always_pending(a, tr, allow_deposits) ==
    IF tr.sig \in a.signatures THEN Result(a, "InvalidTransferSignature")
    ELSE LET a1 == [a EXCEPT !.signatures = @ \cup {tr.sig}]
             a2 == IF ~is_deposit(allow_deposits, tr.from, tr.plan)
                      /\ tr.from \in DOMAIN a1.balances
                   THEN store_i64(a1, tr.from, a1.balances[tr.from] - tr.asset)
                   ELSE a1
         IN  IF a2.panicked THEN Result(a2, "Ok")
             ELSE IF ~is_action(tr.plan)
             THEN Result([a2 EXCEPT !.pending = Put(a2.pending, tr.sig, tr.plan)], "Ok")
             ELSE Result(complete_transaction(a2, tr.plan), "Ok")

\* A transaction applied without a look at the signature set
process_verified_transaction_no_reserve(a, tr, allow_deposits) ==
    LET a1 == [a EXCEPT !.signatures = @ \cup {tr.sig}]
        a2 == IF ~is_deposit(allow_deposits, tr.from, tr.plan)
                 /\ tr.from \in DOMAIN a1.balances
              THEN store_i64(a1, tr.from, a1.balances[tr.from] - tr.asset)
              ELSE a1
        plan == process_event(tr.plan, PlanEventTimestamp(a2.last_time))
    IN  IF a2.panicked THEN Result(a2, "Ok")
        ELSE IF ~is_action(plan)
        THEN Result([a2 EXCEPT !.pending = Put(a2.pending, tr.sig, plan)], "Ok")
        ELSE Result(complete_transaction(a2, plan), "Ok")

process_verified_transaction(a, tr, allow_deposits) ==
    IF tr.sig \in a.signatures THEN Result(a, "InvalidTransferSignature")
    ELSE LET a1 == [a EXCEPT !.signatures = @ \cup {tr.sig}]
             a2 == IF ~is_deposit(allow_deposits, tr.from, tr.plan)
                      /\ tr.from \in DOMAIN a1.balances
                   THEN store_i64(a1, tr.from, a1.balances[tr.from] - tr.asset)
                   ELSE a1
             plan == process_event(tr.plan, PlanEventTimestamp(a2.last_time))
         IN  IF a2.panicked THEN Result(a2, "Ok")
             ELSE IF ~is_action(plan)
             THEN Result([a2 EXCEPT !.pending = Put(a2.pending, tr.sig, plan)], "Ok")
             ELSE Result(complete_transaction(a2, plan), "Ok")

\* A cancellation that refunds and leaves the plan in the map
process_verified_sig_keep(a, from, tx_sig) ==
    IF tx_sig \notin DOMAIN a.pending THEN Result(a, "Ok")
    ELSE LET plan == process_event(a.pending[tx_sig], PlanEventSignature(from))
         IN  IF is_action(plan)
             THEN Result(complete_transaction(
                             [a EXCEPT !.pending = Put(a.pending, tx_sig, plan)], plan), "Ok")
             ELSE Result([a EXCEPT !.pending = Put(a.pending, tx_sig, plan)], "Ok")

process_verified_sig(a, from, tx_sig) ==
    IF tx_sig \notin DOMAIN a.pending THEN Result(a, "Ok")
    ELSE LET plan == process_event(a.pending[tx_sig], PlanEventSignature(from))
         IN  IF is_action(plan)
             THEN Result(complete_transaction(
                             [a EXCEPT !.pending = Remove(a.pending, tx_sig)], plan), "Ok")
             ELSE Result([a EXCEPT !.pending = Put(a.pending, tx_sig, plan)], "Ok")

\* The second loop of process_verified_timestamp
RECURSIVE CompleteKeys(_, _)
CompleteKeys(a, completed) ==
    IF completed = <<>> \/ a.panicked THEN a
    ELSE LET key == Head(completed)
         IN  IF key \in DOMAIN a.pending
             THEN CompleteKeys(complete_transaction(
                                   [a EXCEPT !.pending = Remove(a.pending, key)],
                                   a.pending[key]),
                               Tail(completed))
             ELSE CompleteKeys(a, Tail(completed))

\* A settlement that pays the completed plans and leaves them in the map
process_verified_timestamp_keep(a, from, dt, order) ==
    LET sources == IF a.last_time = 0 THEN a.time_sources \cup {from} ELSE a.time_sources
    IN  IF from \notin sources THEN Result(a, "Ok")
        ELSE LET last == IF dt > a.last_time THEN dt ELSE a.last_time
                 plans == [k \in DOMAIN a.pending |->
                              process_event(a.pending[k], PlanEventTimestamp(last))]
                 completed == SelectSeq(order, LAMBDA k : is_action(plans[k]))
                 a1 == [a EXCEPT !.time_sources = sources, !.last_time = last,
                                 !.pending = plans]
             IN  Result([CompleteKeys(a1, completed) EXCEPT !.pending = plans], "Ok")

\* A timestamp whose sender is taken as a time source whatever the last
\* accepted time is
process_verified_timestamp_trust_all(a, from, dt, order) ==
    LET sources == a.time_sources \cup {from}
    IN  IF from \notin sources THEN Result(a, "Ok")
        ELSE LET last == IF dt > a.last_time THEN dt ELSE a.last_time
                 plans == [k \in DOMAIN a.pending |->
                              process_event(a.pending[k], PlanEventTimestamp(last))]
                 completed == SelectSeq(order, LAMBDA k : is_action(plans[k]))
                 a1 == [a EXCEPT !.time_sources = sources, !.last_time = last,
                                 !.pending = plans]
             IN  Result(CompleteKeys(a1, completed), "Ok")

\* order: the order in which the pending map is iterated
\* A timestamp that is taken as the last accepted time whatever it is
process_verified_timestamp_rewind(a, from, dt, order) ==
    LET sources == IF a.last_time = 0 THEN a.time_sources \cup {from} ELSE a.time_sources
    IN  IF from \notin sources THEN Result(a, "Ok")
        ELSE LET plans == [k \in DOMAIN a.pending |->
                              process_event(a.pending[k], PlanEventTimestamp(dt))]
                 completed == SelectSeq(order, LAMBDA k : is_action(plans[k]))
                 a1 == [a EXCEPT !.time_sources = sources, !.last_time = dt,
                                 !.pending = plans]
             IN  Result(CompleteKeys(a1, completed), "Ok")

process_verified_timestamp(a, from, dt, order) ==
    LET sources == IF a.last_time = 0 THEN a.time_sources \cup {from} ELSE a.time_sources
    IN  IF from \notin sources THEN Result(a, "Ok")
        ELSE LET last == IF dt > a.last_time THEN dt ELSE a.last_time
                 plans == [k \in DOMAIN a.pending |->
                              process_event(a.pending[k], PlanEventTimestamp(last))]
                 completed == SelectSeq(order, LAMBDA k : is_action(plans[k]))
                 a1 == [a EXCEPT !.time_sources = sources, !.last_time = last,
                                 !.pending = plans]
             IN  Result(CompleteKeys(a1, completed), "Ok")

process_verified_event(a, event, allow_deposits, order) ==
    CASE event.kind = "Transaction" ->
             process_verified_transaction(a, event.tr, allow_deposits)
      [] event.kind = "Signature" -> process_verified_sig(a, event.from, event.tx_sig)
      [] OTHER -> process_verified_timestamp(a, event.from, event.dt, order)

\* A submission that reserves the signature before it looks at the balance
process_transaction_reserve_first(a, tr, send_ok) ==
    IF ~tr_verify(tr) THEN Result(a, "InvalidTransfer")
    ELSE IF tr.sig \in a.signatures THEN Result(a, "InvalidTransferSignature")
    ELSE IF unwrap_or(get_balance(a, tr.from), 0) < tr.asset
    THEN Result([a EXCEPT !.signatures = @ \cup {tr.sig}], "InsufficientFunds")
    ELSE LET r == process_verified_transaction(a, tr, FALSE)
         IN  IF r.res # "Ok" \/ r.acc.panicked THEN r
             ELSE IF ~send_ok THEN Result(r.acc, "SendError")
             ELSE r

\* send_ok: the historian still holds the receiving end of the channel
process_transaction(a, tr, send_ok) ==
    IF ~tr_verify(tr) THEN Result(a, "InvalidTransfer")
    ELSE IF unwrap_or(get_balance(a, tr.from), 0) < tr.asset
    THEN Result(a, "InsufficientFunds")
    ELSE LET r == process_verified_transaction(a, tr, FALSE)
         IN  IF r.res # "Ok" \/ r.acc.panicked THEN r
             ELSE IF ~send_ok THEN Result(r.acc, "SendError")
             ELSE r

\* Result::unwrap
unwrap(r) == IF r.res = "Ok" THEN r.acc ELSE [r.acc EXCEPT !.panicked = TRUE]

\* new_from_entries up to and including the deposit of the second entry
new_from_entries(log) ==
    IF Len(log) < 2 THEN [EmptyAccountant EXCEPT !.panicked = TRUE]
    ELSE IF log[2].events = <<>> THEN [EmptyAccountant EXCEPT !.panicked = TRUE]
    ELSE unwrap(process_verified_event(EmptyAccountant, log[2].events[1], TRUE, <<>>))

\* The events of the entries after the second, in log order
RECURSIVE RestEvents(_, _)
RestEvents(log, i) ==
    IF i > Len(log) THEN <<>>
    ELSE log[i].events \o RestEvents(log, i + 1)

\* Mint::create_entries: the seed tick and the deposit of the mint's tokens
MintEntries(tokens) ==
    <<AcctEntry(<<>>),
      AcctEntry(<<EventTransaction(TransactionNew(MintKey, MintKey, tokens, 0))>>)>>

\* The log of an accountant that accepted, in this order, two payments from
\* alice to alice due at time 1 (of 1 and of -1) and alice's timestamp 1
WitnessedLog ==
    MintEntries(IntMax) \o
    <<AcctEntry(<<EventTransaction(TransactionNewOnDate("alice", "alice", 1, 1, 0)),
                  EventTransaction(TransactionNewOnDate("alice", "alice", 1, -1, 0))>>),
      AcctEntry(<<EventTimestamp("alice", 1)>>)>>

\* The log of an accountant that accepted two payments of 1 from alice to
\* bob, due at time 2 and at time 1
PendingLog ==
    MintEntries(2) \o
    <<AcctEntry(<<EventTransaction(TransactionNewOnDate("alice", "bob", 2, 1, 0)),
                  EventTransaction(TransactionNewOnDate("alice", "bob", 1, 1, 0))>>)>>

\* A log whose third entry pays 1 from bob, who holds nothing, to bob, and
\* then 1 from alice to alice
SelfPaymentLog ==
    MintEntries(2) \o
    <<AcctEntry(<<EventTransaction(TransactionNew("bob", "bob", 1, 0)),
                  EventTransaction(TransactionNew("alice", "alice", 1, 0))>>)>>

\* A log whose third entry pays 3 from alice, who holds 2, to bob
OverspentLog ==
    MintEntries(2) \o
    <<AcctEntry(<<EventTransaction(TransactionNew("alice", "bob", 3, 0))>>)>>

InitialLogs ==
    {MintEntries(2), MintEntries(IntMax), WitnessedLog, PendingLog, SelfPaymentLog,
     OverspentLog}

\* Entry sequences new_from_entries cannot be built from: no entry, the seed
\* entry alone, a tick where the deposit should be, and a log whose third
\* entry repeats the deposit's signature
TickSecondLog ==
    <<AcctEntry(<<>>), AcctEntry(<<>>),
      AcctEntry(<<EventTransaction(TransactionNew(MintKey, MintKey, 2, 0))>>)>>

RepeatedSignatureLog ==
    MintEntries(2) \o
    <<AcctEntry(<<EventTransaction(TransactionNew(MintKey, MintKey, 2, 0))>>)>>

MalformedLogs == {<<>>, <<AcctEntry(<<>>)>>, TickSecondLog, RepeatedSignatureLog}

\* The transactions built by transfer and transfer_on_date
TxPool ==
    {TransactionNew(from, to, n, 0) : from \in Keys, to \in Keys, n \in Assets}
    \cup {TransactionNewOnDate(from, to, dt, n, 0) :
              from \in Keys, to \in Keys, dt \in Dates, n \in Assets}

\* test_overspend_attack: a signed transfer whose payment was edited afterwards
Forged(tr, asset) == [tr EXCEPT !.plan.pay.asset = asset]

ForgedTxs ==
    {Forged(TransactionNew("alice", "bob", 1, 0), 2),
     Forged(TransactionNew("alice", "bob", 1, 0), 0)}

Submissions == TxPool \cup ForgedTxs

Orders(a, kind) == IF kind = "Timestamp" THEN Perms(DOMAIN a.pending) ELSE {<<>>}

Settled(a, b) == Cardinality(DOMAIN a.pending) - Cardinality(DOMAIN b.pending)

PcAfter(a, b, todo) ==
    IF a.panicked \/ b.panicked THEN "panicked"
    ELSE IF todo = <<>> THEN "running" ELSE "replay"

InitAcct ==
    /\ overflow_checks \in BOOLEAN
    /\ acct_todo \in InitialLogs \cup MalformedLogs
    /\ acc = EmptyAccountant
    /\ acc2 = EmptyAccountant
    /\ acct_pc = "new"
    /\ acct_ops = 0
    /\ acct_ev = NoAcctEv
    /\ hist_open = TRUE
    /\ acct_log = acct_todo
    /\ acct_read = NoRead
    /\ IdleEntry
    /\ IdleLog
    /\ IdleTick
    /\ IdleHist
    /\ IdleEr
    /\ IdleChan

\* Both accountants are created from the same entries
AcctNewFromEntries ==
    /\ acct_pc = "new"
    /\ LET a == new_from_entries(acct_todo)
           todo == IF a.panicked THEN <<>> ELSE RestEvents(acct_todo, 3)
       IN  /\ acc' = a
           /\ acc2' = a
           /\ acct_todo' = todo
           /\ acct_pc' = PcAfter(a, a, todo)
           /\ acct_ev' = [NoAcctEv EXCEPT !.op = "new_from_entries"]
    /\ acct_read' = NoRead
    /\ UNCHANGED <<overflow_checks, acct_ops, hist_open, acct_log, notAcct>>

\* One turn of new_from_entries' loop over the later entries' events, in both
\* accountants; each iterates its own pending map in its own order
AcctReplayEvent ==
    /\ acct_pc = "replay"
    /\ LET event == Head(acct_todo)
       IN  \E o1 \in Orders(acc, event.kind), o2 \in Orders(acc2, event.kind) :
               LET a == unwrap(process_verified_event(acc, event, FALSE, o1))
                   b == unwrap(process_verified_event(acc2, event, FALSE, o2))
               IN  /\ acc' = a
                   /\ acc2' = b
                   /\ acct_todo' = Tail(acct_todo)
                   /\ acct_pc' = PcAfter(a, b, Tail(acct_todo))
                   /\ acct_ev' = [op |-> "replay", kind |-> event.kind, res |-> "Ok",
                                  order |-> o1, order2 |-> o2,
                                  settled |-> Settled(acc, a)]
    /\ acct_read' = NoRead
    /\ UNCHANGED <<overflow_checks, acct_ops, hist_open, acct_log, notAcct>>

AcctProcessTransaction(tr) ==
    /\ acct_pc = "running"
    /\ acct_ops < MaxAcctOps
    /\ LET r == process_transaction(acc, tr, hist_open)
           r2 == process_transaction(acc2, tr, hist_open)
       IN  /\ acc' = r.acc
           /\ acc2' = r2.acc
           /\ acct_pc' = PcAfter(r.acc, r2.acc, <<>>)
           /\ acct_ev' = [op |-> "process_transaction", kind |-> "Transaction",
                          res |-> r.res, order |-> <<>>, order2 |-> <<>>,
                          settled |-> 0]
    /\ acct_ops' = acct_ops + 1
    /\ acct_read' = NoRead
    /\ UNCHANGED <<overflow_checks, acct_todo, hist_open, acct_log, notAcct>>

\* The receiving end of the historian's entry channel (a public field) is
\* dropped; the logger's next send fails and its thread returns, which closes
\* the channel the accountant sends events into
AcctHistorianExit ==
    /\ acct_pc = "running"
    /\ hist_open
    /\ hist_open' = FALSE
    /\ UNCHANGED <<overflow_checks, acc, acc2, acct_pc, acct_todo, acct_ops, acct_ev,
                   acct_log, acct_read, notAcct>>

AcctWitnessTimestamp(from, dt) ==
    /\ acct_pc = "running"
    /\ acct_ops < MaxAcctOps
    /\ \E o1 \in Perms(DOMAIN acc.pending), o2 \in Perms(DOMAIN acc2.pending) :
           LET r == process_verified_timestamp(acc, from, dt, o1)
               r2 == process_verified_timestamp(acc2, from, dt, o2)
           IN  /\ acc' = r.acc
               /\ acc2' = r2.acc
               /\ acct_pc' = PcAfter(r.acc, r2.acc, <<>>)
               /\ acct_ev' = [op |-> "process_verified_timestamp", kind |-> "Timestamp",
                              res |-> r.res, order |-> o1, order2 |-> o2,
                              settled |-> Settled(acc, r.acc),
                              from |-> from, dt |-> dt]
    /\ acct_ops' = acct_ops + 1
    /\ acct_read' = NoRead
    /\ UNCHANGED <<overflow_checks, acct_todo, hist_open, acct_log, notAcct>>

AcctWitnessSig(from) ==
    /\ acct_pc = "running"
    /\ acct_ops < MaxAcctOps
    /\ \E tx_sig \in acc.signatures :
           LET r == process_verified_sig(acc, from, tx_sig)
               r2 == process_verified_sig(acc2, from, tx_sig)
           IN  /\ acc' = r.acc
               /\ acc2' = r2.acc
               /\ acct_pc' = PcAfter(r.acc, r2.acc, <<>>)
               /\ acct_ev' = [op |-> "process_verified_sig", kind |-> "Signature",
                              res |-> r.res, order |-> <<>>, order2 |-> <<>>,
                              settled |-> Settled(acc, r.acc)]
    /\ acct_ops' = acct_ops + 1
    /\ acct_read' = NoRead
    /\ UNCHANGED <<overflow_checks, acct_todo, hist_open, acct_log, notAcct>>

\* A get_balance call on the accountant new_from_entries returned
AcctGetBalanceDuringReplay(key) ==
    /\ acct_pc \in {"replay", "running"}
    /\ acct_read' = [called |-> TRUE, key |-> key, val |-> get_balance(acc, key),
                     applied |-> Len(RestEvents(acct_log, 3)) - Len(acct_todo)]
    /\ UNCHANGED <<overflow_checks, acc, acc2, acct_pc, acct_todo, acct_ops, acct_ev,
                   hist_open, acct_log, notAcct>>

\* A get_balance call: the accountant exists for its callers once
\* new_from_entries has returned it, and a caller that holds it for reading
\* excludes every call that writes
AcctGetBalance(key) ==
    /\ acct_pc = "running"
    /\ acct_read' = [called |-> TRUE, key |-> key, val |-> get_balance(acc, key),
                     applied |-> Len(RestEvents(acct_log, 3)) - Len(acct_todo)]
    /\ UNCHANGED <<overflow_checks, acc, acc2, acct_pc, acct_todo, acct_ops, acct_ev,
                   hist_open, acct_log, notAcct>>

\* AccountantSkel::process_message, Request::GetBalance: the balance is
\* unwrapped before the response is built
AcctSkelGetBalance(key) ==
    /\ acct_pc = "running"
    /\ LET val == get_balance(acc, key)
       IN  /\ acct_pc' = IF val = <<>> THEN "panicked" ELSE acct_pc
           /\ acct_read' = IF val = <<>> THEN NoRead
                            ELSE [called |-> TRUE, key |-> key, val |-> val,
                                  applied |-> Len(RestEvents(acct_log, 3))
                                              - Len(acct_todo)]
           /\ acct_ev' = [NoAcctEv EXCEPT !.op = "process_message"]
    /\ UNCHANGED <<overflow_checks, acc, acc2, acct_todo, acct_ops, hist_open,
                   acct_log, notAcct>>

NextAcct ==
    \/ AcctNewFromEntries
    \/ AcctReplayEvent
    \/ \E tr \in Submissions : AcctProcessTransaction(tr)
    \/ AcctHistorianExit
    \/ \E from \in Keys, dt \in WitnessDates : AcctWitnessTimestamp(from, dt)
    \/ \E from \in Keys : AcctWitnessSig(from)

SpecAcct == InitAcct /\ [][NextAcct]_vars

\* One writer (the constructor, then process_transaction) and the readers
NextRead ==
    \/ AcctNewFromEntries
    \/ AcctReplayEvent
    \/ \E tr \in Submissions : AcctProcessTransaction(tr)
    \/ \E key \in Keys : AcctGetBalance(key)
    \/ \E key \in Keys : AcctSkelGetBalance(key)

SpecRead == InitAcct /\ [][NextRead]_vars

\* ---------------------------------------------------------------------------
\* Accountant: properties
\* ---------------------------------------------------------------------------

SameLedger ==
    /\ acc.balances = acc2.balances
    /\ acc.pending = acc2.pending
    /\ acc.last_time = acc2.last_time

\* C10: two accountants created from the same entries and fed the same
\* transactions and witnesses end with identical balances, pending plans and
\* last accepted time, whatever order each iterates its pending map in.
C10_AccountantsAgree ==
    /\ acc.panicked = acc2.panicked
    /\ ~acc.panicked => SameLedger

\* Where the two accountants part: a timestamp settles two plans paying one
\* account, and the order decides whether the running balance leaves i64
OrderDecidesPanic ==
    /\ acct_ev.kind = "Timestamp"
    /\ acct_ev.order # acct_ev.order2
    /\ acc.panicked # acc2.panicked

\* Two accountants that both finish the call hold the same ledger, and in a
\* build whose arithmetic wraps they always do
FinishedAccountantsAgree ==
    /\ (~acc.panicked /\ ~acc2.panicked) => SameLedger
    /\ ~overflow_checks => (acc.panicked = acc2.panicked)

\* A timestamp that settled two plans, met in different orders
SettledInDifferentOrders ==
    /\ acct_ev.kind = "Timestamp"
    /\ acct_ev.settled >= 2
    /\ acct_ev.order # acct_ev.order2
    /\ ~acc.panicked /\ ~acc2.panicked

\* The accountant exists and has not panicked
Live == acct_pc \in {"replay", "running"} /\ ~acc.panicked

SameFunds(a, b) == a.balances = b.balances /\ a.pending = b.pending

\* C11: processing the same timestamp witness (same source, same time) a
\* second time changes no balance and no pending plan: from every reachable
\* accountant, the state after two applications equals the state after one.
C11_TimestampIdempotent ==
    Live =>
        \A from \in Keys, dt \in Dates :
            \A o1 \in Perms(DOMAIN acc.pending) :
                LET once == process_verified_timestamp(acc, from, dt, o1).acc
                IN  ~once.panicked =>
                        \A o2 \in Perms(DOMAIN once.pending) :
                            LET twice == process_verified_timestamp(once, from, dt, o2).acc
                            IN  ~twice.panicked /\ SameFunds(twice, once)

\* A timestamp has just settled a plan; the same witness can be sent again
C11_Witness ==
    /\ acct_pc = "running"
    /\ acct_ev.op = "process_verified_timestamp"
    /\ acct_ev.settled >= 1
    /\ ~acc.panicked
    /\ "bob" \in DOMAIN acc.balances

Funds(a, key) == unwrap_or(get_balance(a, key), 0)

\* C12: a transfer whose amount exceeds the sender's balance (no entry counts
\* as 0) is rejected with InsufficientFunds and leaves balances, pending plans
\* and the signature set unchanged; its signature stays free, and a submission
\* whose signature is free and whose sender holds the amount is not rejected.
C12_InsufficientFundsKeepsSignature ==
    (acct_pc = "running") =>
        \A tr \in TxPool :
            LET r == process_transaction(acc, tr, TRUE)
            IN  /\ Funds(acc, tr.from) < tr.asset =>
                       /\ r.res = "InsufficientFunds"
                       /\ r.acc = acc
                /\ (Funds(acc, tr.from) >= tr.asset /\ tr.sig \notin acc.signatures) =>
                       /\ r.res = "Ok"
                       /\ tr.sig \in r.acc.signatures

\* test_invalid_transfer: a rejected transfer, the payer still holding funds
C12_Witness ==
    /\ acct_pc = "running"
    /\ acct_ev.op = "process_transaction"
    /\ acct_ev.res = "InsufficientFunds"
    /\ Funds(acc, "alice") > 0
    /\ "bob" \in DOMAIN acc.balances

SameState(a, b) ==
    /\ a.balances = b.balances
    /\ a.pending = b.pending
    /\ a.signatures = b.signatures
    /\ a.last_time = b.last_time

\* C13: whenever process_transaction returns an error of any kind, the
\* balances, the pending plans, the signature set and the last accepted time
\* equal their values before the call.
C13_ErrorsLeaveStateUnchanged ==
    (acct_pc = "running") =>
        \A tr \in Submissions :
            LET r == process_transaction(acc, tr, hist_open)
            IN  (r.res # "Ok" /\ ~r.acc.panicked) => SameState(r.acc, acc)

\* The errors returned before anything is written do leave the state as it was
RejectionsLeaveStateUnchanged ==
    (acct_pc = "running") =>
        \A tr \in Submissions :
            LET r == process_transaction(acc, tr, hist_open)
            IN  r.res \in {"InvalidTransfer", "InsufficientFunds", "InvalidTransferSignature"}
                    => r.acc = acc

\* A transfer answered with SendError after it was applied
SendErrorAfterPayment ==
    /\ acct_ev.res = "SendError"
    /\ "bob" \in DOMAIN acc.balances

\* C14: a transaction with a given signature is applied at most once: a
\* submission whose signature is already in the signature set is rejected and
\* changes no balance and no pending plan, and every submission that is
\* applied had a free signature and reserves it.
C14_SignatureAppliedOnce ==
    (acct_pc = "running") =>
        \A tr \in Submissions :
            LET r == process_transaction(acc, tr, hist_open)
                v == process_verified_transaction(acc, tr, FALSE)
            IN  /\ tr.sig \in acc.signatures =>
                       /\ r.res \notin {"Ok", "SendError"}
                       /\ r.acc = acc
                       /\ v.res = "InvalidTransferSignature"
                       /\ v.acc = acc
                /\ r.res \in {"Ok", "SendError"} =>
                       /\ tr.sig \notin acc.signatures
                       /\ tr.sig \in r.acc.signatures

\* A funded payment submitted a second time
C14_Witness ==
    /\ acct_pc = "running"
    /\ acct_ev.op = "process_transaction"
    /\ acct_ev.res = "InvalidTransferSignature"
    /\ "bob" \in DOMAIN acc.balances

\* ---------------------------------------------------------------------------
\* Accountant: the life of a dated payment
\* ---------------------------------------------------------------------------

OnDate(tr) == tr.plan.kind = "Race" /\ tr.plan.cond.type = "Timestamp"

Applied(r) == r.res \in {"Ok", "SendError"} /\ ~r.acc.panicked

\* The source's timestamps are accepted
Trusted(a, from) == a.last_time = 0 \/ from \in a.time_sources

\* The pending plans a timestamp (from, dt) completes
DueAt(a, from, dt) ==
    {s \in DOMAIN a.pending :
        /\ Trusted(a, from)
        /\ a.pending[s].cond.type = "Timestamp"
        /\ a.pending[s].cond.dt <= (IF dt > a.last_time THEN dt ELSE a.last_time)}

\* The sum of the payments the plans S of a make to key
RECURSIVE CreditOf(_, _, _)
CreditOf(a, S, key) ==
    IF S = {} THEN 0
    ELSE LET s == CHOOSE x \in S : TRUE
         IN  (IF a.pending[s].pay.to = key THEN a.pending[s].pay.asset ELSE 0)
             + CreditOf(a, S \ {s}, key)

\* The balances of a after the first payments of the plans S
BalancesAfter(a, S) ==
    [key \in (DOMAIN a.balances) \cup {a.pending[s].pay.to : s \in S} |->
        wrapping(Funds(a, key) + CreditOf(a, S, key))]

\* Every pending plan waits for a date after the last accepted time
PendingPlansWait ==
    \A s \in DOMAIN acc.pending :
        /\ acc.pending[s].kind = "Race"
        /\ acc.pending[s].cond.type = "Timestamp"
        /\ acc.pending[s].cond.dt > acc.last_time

\* A dated payment from a sender with a balance entry debits the sender and
\* is stored; a submission leaves the plans already pending as they are
SubmissionStoresPlan ==
    \A tr \in Submissions :
        LET r == process_transaction(acc, tr, hist_open)
        IN  /\ (Applied(r) /\ OnDate(tr) /\ tr.plan.cond.dt > acc.last_time
                 /\ tr.from \in DOMAIN acc.balances) =>
                   /\ r.acc.balances =
                          Put(acc.balances, tr.from,
                              wrapping(acc.balances[tr.from] - tr.asset))
                   /\ r.acc.pending = Put(acc.pending, tr.sig, tr.plan)
            /\ ~r.acc.panicked =>
                   \A s \in DOMAIN acc.pending :
                       s \in DOMAIN r.acc.pending /\ r.acc.pending[s] = acc.pending[s]

\* A timestamp removes exactly the plans that are due and from a trusted
\* source, and credits their payees in full
TimestampSettlesDue ==
    \A from \in Keys, dt \in Dates :
        \A o \in Perms(DOMAIN acc.pending) :
            LET r == process_verified_timestamp(acc, from, dt, o).acc
                due == DueAt(acc, from, dt)
            IN  ~r.panicked =>
                    /\ DOMAIN r.pending = (DOMAIN acc.pending) \ due
                    /\ \A s \in DOMAIN r.pending : r.pending[s] = acc.pending[s]
                    /\ r.balances = BalancesAfter(acc, due)

\* A signature witness removes a pending plan only when it comes from the
\* sender, and then refunds the sender
SignatureRefundsSender ==
    \A from \in Keys :
        \A s \in DOMAIN acc.pending :
            LET r == process_verified_sig(acc, from, s).acc
                plan == acc.pending[s]
            IN  ~r.panicked =>
                    IF from = plan.cond2.key
                    THEN /\ r.pending = Remove(acc.pending, s)
                         /\ r.balances =
                                Put(acc.balances, plan.pay2.to,
                                    wrapping(Funds(acc, plan.pay2.to) + plan.pay2.asset))
                    ELSE SameFunds(r, acc)

CreditedAtWitness(a, tr, key) ==
    LET b == process_verified_sig(a, key, tr.sig).acc
        to == tr.plan.pay.to
    IN  \A from \in Keys, dt \in Dates :
            (Trusted(b, from) /\ dt >= tr.plan.cond.dt) =>
                \A o \in Perms(DOMAIN b.pending) :
                    LET c == process_verified_timestamp(b, from, dt, o).acc
                        others == DueAt(b, from, dt) \ {tr.sig}
                    IN  ~c.panicked =>
                            Funds(c, to) =
                                wrapping(Funds(b, to) + CreditOf(b, others, to) + tr.asset)

CancelledPaymentStillCredited ==
    (acct_pc = "running") =>
        \A tr \in TxPool :
            LET r == process_transaction(acc, tr, hist_open)
            IN  (Applied(r) /\ OnDate(tr) /\ tr.plan.cond.dt > acc.last_time
                 /\ tr.from \in DOMAIN acc.balances /\ tr.asset > 0) =>
                    \A key \in Keys : CreditedAtWitness(r.acc, tr, key)

\* The part of the statement about the debit
SubmissionDebitsSender ==
    (acct_pc = "running") =>
        \A tr \in TxPool :
            LET r == process_transaction(acc, tr, hist_open)
            IN  (Applied(r) /\ OnDate(tr) /\ tr.plan.cond.dt > acc.last_time) =>
                    Funds(r.acc, tr.from) = wrapping(Funds(acc, tr.from) - tr.asset)

\* After the plan s has left the pending map of a: a signature witness for s
\* changes nothing, and a timestamp pays the plans still pending and no other
NoSecondPayout(a, s) ==
    /\ s \notin DOMAIN a.pending
    /\ \A from \in Keys : process_verified_sig(a, from, s).acc = a
    /\ \A from \in Keys, dt \in Dates :
           \A o \in Perms(DOMAIN a.pending) :
               LET r == process_verified_timestamp(a, from, dt, o).acc
               IN  ~r.panicked =>
                       /\ r.balances = BalancesAfter(a, DueAt(a, from, dt))
                       /\ s \notin DOMAIN r.pending
    /\ \A tr \in Submissions :
           LET r == process_transaction(a, tr, hist_open)
           IN  tr.sig = s => (r.acc = a /\ r.res \notin {"Ok", "SendError"})

\* C16: every pending plan pays out at most once: once a signature witness
\* (the sender's cancellation) or a timestamp witness has resolved it, it is
\* out of the pending map, and no later witness of either kind, a repeat of
\* the same one included, pays it again.
C16_PlanPaysOnce ==
    (acct_pc = "running") =>
        /\ DOMAIN acc.pending \subseteq acc.signatures
        /\ \A s \in DOMAIN acc.pending :
               /\ \A from \in Keys :
                      LET r == process_verified_sig(acc, from, s).acc
                      IN  (~r.panicked /\ from = acc.pending[s].cond2.key) =>
                              /\ NoSecondPayout(r, s)
                              /\ process_verified_sig(r, from, s).acc = r
               /\ \A from \in Keys, dt \in Dates :
                      \A o \in Perms(DOMAIN acc.pending) :
                          LET r == process_verified_timestamp(acc, from, dt, o).acc
                          IN  (~r.panicked /\ s \in DueAt(acc, from, dt)) =>
                                  NoSecondPayout(r, s)
        /\ \A s \in acc.signatures \ DOMAIN acc.pending : NoSecondPayout(acc, s)

\* test_cancel_transfer: alice has cancelled a pending payment to bob and
\* holds the refund
C16_Witness ==
    /\ acct_pc = "running"
    /\ acct_ev.op = "process_verified_sig"
    /\ acct_ev.settled = 1
    /\ Funds(acc, "alice") >= 1
    /\ "bob" \notin DOMAIN acc.balances

\* ---------------------------------------------------------------------------
\* Accountant: the order of witnesses
\* ---------------------------------------------------------------------------

\* The witnesses that can be delivered to a
Witnesses(a) ==
    {EventSignature(from, s) : from \in Keys, s \in DOMAIN a.pending}
    \cup {EventTimestamp(from, dt) : from \in Keys, dt \in Dates}

\* The accountants a delivery of w to a can return, one per map order
Outcomes(a, w) ==
    {x \in {process_verified_event(a, w, FALSE, o).acc : o \in Orders(a, w.kind)} :
        ~x.panicked}

\* The accountants the delivery of w1, then of w2, can return
Delivered(a, w1, w2) == UNION {Outcomes(b, w2) : b \in Outcomes(a, w1)}

SameEitherWay(a, w1, w2) ==
    \A x \in Delivered(a, w1, w2), y \in Delivered(a, w2, w1) : SameFunds(x, y)

\* w is the signature of the sender of a plan that the timestamp v completes
Races(a, w, v) ==
    /\ w.kind = "Signature" /\ v.kind = "Timestamp"
    /\ w.tx_sig \in DueAt(a, v.from, v.dt)
    /\ w.from = a.pending[w.tx_sig].cond2.key

\* w and v are timestamps of two sources, and neither is trusted yet
Bootstraps(a, w, v) ==
    /\ w.kind = "Timestamp" /\ v.kind = "Timestamp"
    /\ a.last_time = 0
    /\ w.from # v.from

RacingWitnessesAgree ==
    (acct_pc = "running") =>
        \A w1, w2 \in Witnesses(acc) : Races(acc, w1, w2) => SameEitherWay(acc, w1, w2)

\* The first timestamps of two sources
BootstrappingWitnessesAgree ==
    (acct_pc = "running") =>
        \A w1, w2 \in Witnesses(acc) :
            Bootstraps(acc, w1, w2) => SameEitherWay(acc, w1, w2)

Events(a) == {EventTransaction(tr) : tr \in Submissions} \cup Witnesses(a)

\* C18: last_time is epoch zero in a new accountant and never decreases; an
\* event changes it only if it is a timestamp of a trusted source later than
\* last_time, and then last_time becomes that timestamp.
C18_LastTimeNeverDecreases ==
    /\ (acct_pc = "new") => acc.last_time = 0
    /\ \A log \in InitialLogs : new_from_entries(log).last_time = 0
    /\ \A event \in Events(acc), deposits \in BOOLEAN :
           \A o \in Orders(acc, event.kind) :
               LET r == process_verified_event(acc, event, deposits, o).acc
                   later == /\ event.kind = "Timestamp"
                            /\ event.from \in r.time_sources
                            /\ event.dt > acc.last_time
               IN  /\ r.last_time >= acc.last_time
                   /\ (r.last_time # acc.last_time) => later
                   /\ later => r.last_time = event.dt
    /\ \A tr \in Submissions, send_ok \in BOOLEAN :
           process_transaction(acc, tr, send_ok).acc.last_time = acc.last_time

\* alice's timestamp 2 was accepted after her timestamp 1, and bob's
\* timestamp would be ignored
C18_Witness ==
    /\ acct_pc = "running"
    /\ acct_ev.op = "process_verified_timestamp"
    /\ acc.last_time = 2
    /\ acc.time_sources = {"alice"}
    /\ acct_ops = 2

\* ---------------------------------------------------------------------------
\* Accountant: the deposit
\* ---------------------------------------------------------------------------

\* The event new_from_entries' loop applies next is a payment to its sender
ReplaysSelfPayment ==
    /\ acct_pc = "replay"
    /\ Head(acct_todo).kind = "Transaction"
    /\ Head(acct_todo).tr.plan.pay.to = Head(acct_todo).tr.from

\* The accountants the loop's next turn can leave
Replayed ==
    {a \in {process_verified_event(acc, Head(acct_todo), FALSE, o).acc :
                o \in Orders(acc, Head(acct_todo).kind)} : ~a.panicked}

\* The second entry's payment from the mint to the mint leaves the mint's
\* balance at the amount, and nothing else
DepositCreditsMint ==
    \A log \in InitialLogs :
        LET tr == log[2].events[1].tr
        IN  new_from_entries(log).balances = Put(<<>>, tr.from, tr.asset)

\* C19: the second entry's payment from the mint to itself is a deposit, and
\* no later payment of a log from an account to itself increases the balance
\* of that account.
C19_OnlyFirstSelfPaymentDeposits ==
    /\ DepositCreditsMint
    /\ ReplaysSelfPayment =>
           \A a \in Replayed :
               Funds(a, Head(acct_todo).tr.from) <= Funds(acc, Head(acct_todo).tr.from)

\* A later payment of a positive amount from an account that has a balance
\* to itself does not increase that balance
FundedSelfPaymentKeepsBalance ==
    (/\ ReplaysSelfPayment
     /\ Head(acct_todo).tr.asset > 0
     /\ Head(acct_todo).tr.from \in DOMAIN acc.balances) =>
        \A a \in Replayed :
            Funds(a, Head(acct_todo).tr.from) <= Funds(acc, Head(acct_todo).tr.from)

\* bob's payment to himself was replayed and bob has the amount
SelfPaymentCreditedFromNothing ==
    /\ acct_ev.op = "replay"
    /\ acct_todo # <<>>
    /\ Head(acct_todo).tr.from = "alice"
    /\ Funds(acc, "bob") = 1
    /\ Funds(acc, "alice") = 2

\* ---------------------------------------------------------------------------
\* Accountant: readers and the application of an entry
\* ---------------------------------------------------------------------------

\* The events of entries i..k of log
RECURSIVE EventsOf(_, _, _)
EventsOf(log, i, k) ==
    IF i > k THEN <<>> ELSE log[i].events \o EventsOf(log, i + 1, k)

\* The accountants left by applying all of events to a
RECURSIVE ReplayAll(_, _)
ReplayAll(a, events) ==
    IF events = <<>> \/ a.panicked THEN {a}
    ELSE UNION {ReplayAll(unwrap(process_verified_event(a, Head(events), FALSE, o)),
                          Tail(events)) : o \in Orders(a, Head(events).kind)}

\* The accountants left by applying entries 1..k of log, whole
AfterEntry(log, k) == ReplayAll(new_from_entries(log), EventsOf(log, 3, k))

C21_ExternalInputNeverPanics ==
    (acct_ev.op \in {"new_from_entries", "replay", "process_message"}) =>
        acct_pc # "panicked"

\* new_from_entries returns for a log of fewer than two entries
ShortLogReturns ==
    (Len(acct_log) < 2 /\ acct_ev.op = "new_from_entries") => acct_pc # "panicked"

\* new_from_entries returns for a log whose second entry has no event
TickSecondLogReturns ==
    (acct_log = TickSecondLog /\ acct_ev.op = "new_from_entries") =>
        acct_pc # "panicked"

\* new_from_entries returns for a log that repeats a signature
RepeatedSignatureLogReturns ==
    (acct_log = RepeatedSignatureLog /\ acct_ev.op = "replay") => acct_pc # "panicked"

\* process_message returns for GetBalance of a key that has no balance
GetBalanceAlwaysReturns ==
    (acct_ev.op = "process_message") => acct_pc # "panicked"

-----------------------------------------------------------------------------
(* The historian (src/historian.rs): the logger thread and its two channels *)

\* hash_event: the signature of an event is hashed into the end hash
hash_event(end_hash, event) ==
    LET sig == get_signature(event)
    IN  IF sig # <<>> THEN extend_and_hash(end_hash, sig[1]) ELSE end_hash

HistEntry(end_hash, num_hashes, event) ==
    [end_hash |-> end_hash, num_hashes |-> num_hashes, event |-> event]

\* The logger and the entries sent so far
Logged(h, out) == [h |-> h, out |-> out]

\* log_event that goes on after a failed send
log_event_ignore_error(lg, event, open) ==
    LET end_hash == hash_event(lg.h.end_hash, event)
        entry == HistEntry(end_hash, lg.h.num_hashes, event)
    IN  Logged([lg.h EXCEPT !.end_hash = end_hash, !.num_hashes = 0],
               IF open THEN Append(lg.out, entry) ELSE lg.out)

\* log_event: open is whether the entry channel still has its receiver
log_event(lg, event, open) ==
    LET end_hash == hash_event(lg.h.end_hash, event)
        entry == HistEntry(end_hash, lg.h.num_hashes, event)
    IN  IF ~open
        THEN Logged([lg.h EXCEPT !.end_hash = end_hash,
                                 !.exit = <<[entry |-> entry,
                                             reason |-> "SendDisconnected"]>>],
                    lg.out)
        ELSE Logged([lg.h EXCEPT !.end_hash = end_hash, !.num_hashes = 0],
                    Append(lg.out, entry))

\* log_events, the head of the loop: a tick is logged when the time is due
cadence(lg, due, open) ==
    IF ~due THEN lg
    ELSE LET r == log_event(lg, Tick, open)
         IN  IF r.h.exit # <<>> THEN r
             ELSE Logged([r.h EXCEPT !.num_ticks = @ + 1], r.out)

\* log_events, Ok(event), without verify_event
received_no_verify(lg, event, open) ==
    IF lg.h.exit # <<>> THEN lg
    ELSE LET sig == get_signature(event)
         IN  IF sig # <<>> /\ sig[1] \in lg.h.signatures THEN lg
             ELSE log_event(Logged([lg.h EXCEPT !.signatures =
                                        IF sig # <<>> THEN @ \cup {sig[1]} ELSE @],
                                   lg.out),
                            event, open)

\* log_events, Ok(event), without the look into the signature set
received_no_dedup(lg, event, open) ==
    IF lg.h.exit # <<>> \/ ~verify_event(event) THEN lg
    ELSE LET sig == get_signature(event)
         IN  log_event(Logged([lg.h EXCEPT !.signatures =
                                   IF sig # <<>> THEN @ \cup {sig[1]} ELSE @],
                              lg.out),
                       event, open)

\* log_events, Ok(event)
received(lg, event, open) ==
    IF lg.h.exit # <<>> \/ ~verify_event(event) THEN lg
    ELSE LET sig == get_signature(event)
         IN  IF sig # <<>> /\ sig[1] \in lg.h.signatures THEN lg
             ELSE log_event(Logged([lg.h EXCEPT !.signatures =
                                        IF sig # <<>> THEN @ \cup {sig[1]} ELSE @],
                                   lg.out),
                            event, open)

\* log_events, Err(Empty), and create_logger's hash after log_events returned
empty(lg) ==
    IF lg.h.exit # <<>> THEN lg
    ELSE Logged([lg.h EXCEPT !.end_hash = sha(@), !.num_hashes = @ + 1], lg.out)

\* log_events, Err(Disconnected): the entry is returned, not sent
disconnected(lg) ==
    IF lg.h.exit # <<>> THEN lg
    ELSE Logged([lg.h EXCEPT !.exit =
                    <<[entry |-> HistEntry(lg.h.end_hash, lg.h.num_hashes, Tick),
                       reason |-> "RecvDisconnected"]>>],
                lg.out)

InitHist ==
    /\ hist_start = HashDefault
    /\ hist_ms \in BOOLEAN
    /\ StartHist
    /\ IdleEntry
    /\ IdleLog
    /\ IdleTick
    /\ IdleAcct
    /\ IdleEr
    /\ IdleChan

\* The time of the next tick may have come when ms_per_tick is Some
Due == IF hist_ms /\ hist.num_ticks < MaxHistTicks THEN BOOLEAN ELSE {FALSE}

\* One turn of log_events' loop that receives an event
HistRecvEvent(due) ==
    /\ hist.exit = <<>>
    /\ hist_in # <<>>
    /\ LET r == received(cadence(Logged(hist, hist_out), due, hist_out_open),
                         Head(hist_in), hist_out_open)
       IN  /\ hist' = r.h
           /\ hist_out' = r.out
           /\ hist_in' = IF cadence(Logged(hist, hist_out), due, hist_out_open).h.exit
                             # <<>>
                          THEN hist_in ELSE Tail(hist_in)
    /\ UNCHANGED <<hist_start, hist_ms, hist_in_open, hist_out_open, hist_sent,
                   notHist>>

\* One turn that finds the event channel empty, and the hash that follows
HistRecvEmpty(due) ==
    /\ hist.exit = <<>>
    /\ hist_in = <<>>
    /\ hist_in_open
    /\ hist.num_hashes < MaxHistHashes
    /\ LET r == empty(cadence(Logged(hist, hist_out), due, hist_out_open))
       IN  /\ hist' = r.h
           /\ hist_out' = r.out
    /\ UNCHANGED <<hist_start, hist_ms, hist_in, hist_in_open, hist_out_open,
                   hist_sent, notHist>>

\* One turn that finds the event channel empty and its sender dropped
HistRecvDisconnected(due) ==
    /\ hist.exit = <<>>
    /\ hist_in = <<>>
    /\ ~hist_in_open
    /\ LET r == disconnected(cadence(Logged(hist, hist_out), due, hist_out_open))
       IN  /\ hist' = r.h
           /\ hist_out' = r.out
    /\ UNCHANGED <<hist_start, hist_ms, hist_in, hist_in_open, hist_out_open,
                   hist_sent, notHist>>

\* hist.sender.send(event)
HistSend(event) ==
    /\ hist_in_open
    /\ hist.exit = <<>>
    /\ Len(hist_sent) < MaxHistSends
    /\ hist_in' = Append(hist_in, event)
    /\ hist_sent' = Append(hist_sent, event)
    /\ UNCHANGED <<hist_start, hist_ms, hist, hist_in_open, hist_out, hist_out_open,
                   notHist>>

\* drop(hist.sender)
HistDropSender ==
    /\ hist_in_open
    /\ hist_in_open' = FALSE
    /\ UNCHANGED <<hist_start, hist_ms, hist, hist_in, hist_out, hist_out_open,
                   hist_sent, notHist>>

\* drop(hist.receiver)
HistDropReceiver ==
    /\ hist_out_open
    /\ hist_out_open' = FALSE
    /\ UNCHANGED <<hist_start, hist_ms, hist, hist_in, hist_in_open, hist_out,
                   hist_sent, notHist>>

NextHist ==
    \/ \E due \in Due : HistRecvEvent(due)
    \/ \E due \in Due : HistRecvEmpty(due)
    \/ \E due \in Due : HistRecvDisconnected(due)
    \/ \E event \in LogEvents : HistSend(event)
    \/ HistDropSender
    \/ HistDropReceiver

SpecHist == InitHist /\ [][NextHist]_vars

\* ---------------------------------------------------------------------------
\* Historian: the emitted entries as a chain
\* ---------------------------------------------------------------------------

\* The emitted entries as the slice log.rs verifies
AsLog(out) ==
    [i \in 1..Len(out) |-> LogEntry(out[i].num_hashes, out[i].end_hash, out[i].event)]

\* verify_slice_seq as a function of the slice
VerifiesSlice(events, start) ==
    \A i \in 1..Len(events) : verify_entry(events[i], seq_pair_start(events, start, i))

\* The hash of the entry emitted last, or the start hash
HistTip == IF hist_out = <<>> THEN hist_start ELSE hist_out[Len(hist_out)].end_hash

\* The logger's counter is the number of hashes done since the last emission
CounterRestarts == (hist.exit = <<>>) => hist.end_hash = chain(HistTip, hist.num_hashes)

\* C22: at every point of every interleaving, the entries emitted so far
\* verify against the start hash, and the counter is the number of hashes
\* since the last emission.
C22_EmittedEntriesVerify ==
    /\ VerifiesSlice(AsLog(hist_out), hist_start)
    /\ CounterRestarts

\* Emitted ticks verify
EmittedTicksVerify ==
    (\A i \in 1..Len(hist_out) : hist_out[i].event = Tick) =>
        VerifiesSlice(AsLog(hist_out), hist_start)

\* Each entry's hash is num_hashes hashes after the hash before it, with the
\* event's signature hashed in after them
HashedThenSigned ==
    \A i \in 1..Len(hist_out) :
        hist_out[i].end_hash =
            hash_event(chain(seq_pair_start(AsLog(hist_out), hist_start, i),
                             hist_out[i].num_hashes),
                       hist_out[i].event)

\* A claim was emitted after one hash
ClaimEmittedAfterHash ==
    /\ hist_out # <<>>
    /\ hist_out[Len(hist_out)].event.kind = "Claim"
    /\ hist_out[Len(hist_out)].num_hashes = 1

\* ---------------------------------------------------------------------------
\* Historian: one entry per signature
\* ---------------------------------------------------------------------------

\* The positions of the emitted entries that carry event
EntriesOf(event) == {i \in 1..Len(hist_out) : hist_out[i].event = event}

Signed(event) == get_signature(event) # <<>>

\* The logger has taken every event sent and the entry channel is open
Drained == hist_in = <<>> /\ hist_out_open

\* C23: no signature is in two emitted entries; once the logger has taken
\* every event sent, each valid signed event sent is in exactly one entry;
\* and an event whose signature is in the signature set is dropped: the
\* logger and the emitted entries stay as they are.
C23_OneEntryPerSignature ==
    /\ \A i, j \in 1..Len(hist_out) :
           (/\ i # j
            /\ Signed(hist_out[i].event)
            /\ Signed(hist_out[j].event)) =>
               get_signature(hist_out[i].event) # get_signature(hist_out[j].event)
    /\ Drained =>
           \A k \in 1..Len(hist_sent) :
               (Signed(hist_sent[k]) /\ verify_event(hist_sent[k])) =>
                   Cardinality(EntriesOf(hist_sent[k])) = 1
    /\ \A event \in LogEvents :
           (Signed(event) /\ get_signature(event)[1] \in hist.signatures) =>
               received(Logged(hist, hist_out), event, hist_out_open)
                   = Logged(hist, hist_out)

\* The same claim was sent twice, both were taken, and one entry carries it
C23_Witness ==
    /\ Len(hist_sent) = 2
    /\ hist_sent[1] = hist_sent[2]
    /\ Signed(hist_sent[1])
    /\ Drained
    /\ Len(hist_out) = 1
    /\ hist_out[1].event = hist_sent[1]

\* ---------------------------------------------------------------------------
\* Historian: the event channel is closed
\* ---------------------------------------------------------------------------

\* The logger thread has returned with reason
Exited(reason) == hist.exit # <<>> /\ hist.exit[1].reason = reason

\* The logger thread is scheduled as long as it has not returned
LoggerStep ==
    \E due \in Due :
        HistRecvEvent(due) \/ HistRecvEmpty(due) \/ HistRecvDisconnected(due)

FairSpecHist == SpecHist /\ WF_vars(LoggerStep)

\* Once the sender is dropped the logger thread returns
ClosedLeadsToExit == (~hist_in_open) ~> (hist.exit # <<>>)

\* The logger returns SendDisconnected only if the receiver was dropped
OpenOutputExitsRecvDisconnected ==
    (hist.exit # <<>> /\ hist_out_open) => Exited("RecvDisconnected")

\* When the logger returns RecvDisconnected with the entry channel open, every
\* valid signed event sent is in an emitted entry, and the entry it returns is
\* a tick with the current end hash and the accumulated count
DrainedAtExit ==
    (Exited("RecvDisconnected") /\ hist_out_open) =>
        /\ \A k \in 1..Len(hist_sent) :
               (Signed(hist_sent[k]) /\ verify_event(hist_sent[k])) =>
                   Cardinality(EntriesOf(hist_sent[k])) = 1
        /\ hist.exit[1].entry = HistEntry(hist.end_hash, hist.num_hashes, Tick)
        /\ hist.end_hash = chain(HistTip, hist.num_hashes)

\* C24: when the logger has returned RecvDisconnected and the entry channel
\* is open, every valid non-duplicate event sent has its entry, and the last
\* entry emitted is the final tick with the current end hash and the
\* accumulated hash count.
C24_FinalTickEmitted ==
    (Exited("RecvDisconnected") /\ hist_out_open) =>
        /\ DrainedAtExit
        /\ hist_out # <<>>
        /\ hist_out[Len(hist_out)] = hist.exit[1].entry

\* The logger returned RecvDisconnected after an invalid event: nothing was
\* emitted (test_bad_event_attack)
ExitedWithoutEntries ==
    /\ Exited("RecvDisconnected")
    /\ hist_out_open
    /\ hist_sent # <<>>
    /\ hist_out = <<>>

\* ---------------------------------------------------------------------------
\* Historian: the entry channel is closed
\* ---------------------------------------------------------------------------

\* With the receiver dropped, log_event sends nothing and returns the entry
\* it built with SendDisconnected, and that is what the thread returned if it
\* returned SendDisconnected
SendFailureReturnsEntry ==
    /\ (~hist_out_open /\ hist.exit = <<>>) =>
           \A event \in LogEvents :
               LET r == log_event(Logged(hist, hist_out), event, hist_out_open)
               IN  /\ r.out = hist_out
                   /\ r.h.exit =
                          <<[entry |-> HistEntry(hash_event(hist.end_hash, event),
                                                 hist.num_hashes, event),
                             reason |-> "SendDisconnected"]>>
    /\ Exited("SendDisconnected") =>
           /\ ~hist_out_open
           /\ hist.exit[1].entry.end_hash = hist.end_hash
           /\ hist.exit[1].entry.num_hashes = hist.num_hashes

\* A logger that has the receiver dropped emits nothing, its first attempt
\* to emit makes it return, and a logger that has returned does nothing
NoEmissionAfterClose ==
    /\ ~hist_out_open => hist_out' = hist_out
    /\ (~hist_out_open /\ hist.exit = <<>> /\ hist'.end_hash # hist.end_hash
           /\ hist'.end_hash # sha(hist.end_hash)) => hist'.exit # <<>>
    /\ hist.exit # <<>> => (hist' = hist /\ hist_out' = hist_out)

\* C25: once the entry channel is closed, the logger's next attempt to emit
\* an entry makes the thread return SendDisconnected with the entry it could
\* not send, and nothing is emitted afterwards.
C25_ClosedOutputStopsLogger == []SendFailureReturnsEntry /\ [][NoEmissionAfterClose]_vars

\* The logger returned the claim it could not send
C25_Witness ==
    /\ Exited("SendDisconnected")
    /\ hist.exit[1].entry.event.kind = "Claim"
    /\ hist_out # <<>>

\* ---------------------------------------------------------------------------
\* Historian: events that do not verify
\* ---------------------------------------------------------------------------

\* C26: an event whose signature does not verify leaves the logger (end
\* hash, counter, signature set, not returned) and the emitted entries as
\* they were; every emitted entry carries an event that verifies, and every
\* signature in the set is that of a valid event sent.
C26_BadEventIgnored ==
    /\ \A event \in LogEvents :
           ~verify_event(event) =>
               received(Logged(hist, hist_out), event, hist_out_open)
                   = Logged(hist, hist_out)
    /\ \A i \in 1..Len(hist_out) : verify_event(hist_out[i].event)
    /\ \A sig \in hist.signatures :
           \E k \in 1..Len(hist_sent) :
               /\ verify_event(hist_sent[k])
               /\ get_signature(hist_sent[k]) = <<sig>>

\* A claim with a bad signature was taken, then the valid claim that has the
\* same signature was emitted, and the logger is still running
C26_Witness ==
    /\ Len(hist_sent) = 2
    /\ ~verify_event(hist_sent[1])
    /\ verify_event(hist_sent[2])
    /\ get_signature(hist_sent[1]) = get_signature(hist_sent[2])
    /\ hist_in = <<>>
    /\ hist.exit = <<>>
    /\ Len(hist_out) = 1
    /\ hist_out[1].event = hist_sent[2]

-----------------------------------------------------------------------------
(* The erasure-coded window (src/erasure.rs) *)

NUM_DATA == 16

NUM_CODING == 4

\* packet::BLOB_HEADER_SIZE
BLOB_HEADER_SIZE == 8

\* The payload length of the blobs the tests fill the window with
DataLen == 16

WindowLen == ErBlocks * NUM_DATA

Slots == 0..(WindowLen - 1)

\* A blob: the bytes (the header's index and size, and the payload) and the
\* metadata kept beside them (meta.size, meta.addr)
Blob(index, data_size, payload, size, addr) ==
    [index |-> index, data_size |-> data_size, payload |-> payload,
     size |-> size, addr |-> addr]

\* BlobRecycler::allocate: a blob of zeroes with default metadata
Allocated == Blob(0, 0, 0, 0, "0.0.0.0")

\* The bytes of a blob: what the encoder reads and the decoder restores
Bytes(b) == [index |-> b.index, data_size |-> b.data_size, payload |-> b.payload]

\* Blob::set_size
set_size(b, size) ==
    [b EXCEPT !.size = size + BLOB_HEADER_SIZE, !.data_size = size + BLOB_HEADER_SIZE]

\* generate_window: blob i holds payload bytes that depend on i, and was
\* received from the address addrs gives it
generate_window(addrs) ==
    [n \in Slots |->
        [data |-> <<[set_size(Allocated, DataLen) EXCEPT
                        !.index = n, !.payload = 100 + n, !.addr = addrs[n]]>>,
         coding |-> <<>>]]

\* The addresses the blobs of a window were received from
AddressMaps ==
    {[n \in Slots |-> "10.0.0.1"],
     [n \in Slots |-> IF n % 2 = 0 THEN "10.0.0.1" ELSE "10.0.0.2"]}

Max(S) == CHOOSE x \in S : \A y \in S : y <= x

\* jerasure_matrix_encode: coding block row of the data blocks; the term
\* keeps the bytes it was computed from, which is what a decoder with enough
\* blocks left can get back
jerasure_matrix_encode(data, row) == [row |-> row, of |-> data]

\* generate_coding for the block that starts at block_start
generate_coding_block(window, block_start) ==
    LET block == block_start..(block_start + NUM_DATA - 1)
        coding_start == block_start + NUM_DATA - NUM_CODING
        max_data_size == Max({window[n % WindowLen].data[1].size : n \in block})
        data == [k \in 0..(NUM_DATA - 1) |->
                    Bytes(window[(block_start + k) % WindowLen].data[1])]
    IN  [n \in Slots |->
            IF n \in {i % WindowLen : i \in coding_start..(block_start + NUM_DATA - 1)}
            THEN [window[n] EXCEPT !.coding =
                     <<[set_size(Allocated, max_data_size) EXCEPT
                           !.index = window[n].data[1].index,
                           !.payload = jerasure_matrix_encode(data, n - coding_start)]>>]
            ELSE window[n]]

\* generate_coding(window, recycler, consumed, num_blobs), from block b on
RECURSIVE generate_coding_from(_, _, _)
generate_coding_from(window, b, blocks) ==
    IF b >= blocks THEN window
    ELSE IF \E n \in (b * NUM_DATA)..(b * NUM_DATA + NUM_DATA - 1) :
                window[n % WindowLen].data = <<>>
         THEN window
         ELSE generate_coding_from(generate_coding_block(window, b * NUM_DATA),
                                   b + 1, blocks)

generate_coding(window, blocks) == generate_coding_from(window, 0, blocks)

\* The positions of a block whose data (coding) slot is empty
DataMissing(window, block_start) ==
    {i \in block_start..(block_start + NUM_DATA - 1) : window[i % WindowLen].data = <<>>}

CodingMissing(window, block_start) ==
    {i \in (block_start + NUM_DATA - NUM_CODING)..(block_start + NUM_DATA - 1) :
        window[i % WindowLen].coding = <<>>}

\* recover's erasures list without the final -1: data positions, then coding
\* positions, each set in increasing order
RECURSIVE Ascending(_)
Ascending(S) ==
    IF S = {} THEN <<>>
    ELSE LET x == CHOOSE x \in S : \A y \in S : x <= y
         IN  <<x>> \o Ascending(S \ {x})

\* The index recover gives an empty coding slot
coding_erasure(i, block_start) == i - block_start + NUM_DATA

erasures_of(window, block_start) ==
    Ascending({i - block_start : i \in DataMissing(window, block_start)})
    \o Ascending({coding_erasure(i, block_start) :
                     i \in CodingMissing(window, block_start)})

\* recover, after the counting: a blob is allocated into every empty slot
with_placeholders(window, block_start) ==
    LET dm == {i % WindowLen : i \in DataMissing(window, block_start)}
        cm == {i % WindowLen : i \in CodingMissing(window, block_start)}
    IN  [n \in Slots |->
            [data |-> IF n \in dm THEN <<Allocated>> ELSE window[n].data,
             coding |-> IF n \in cm THEN <<Allocated>> ELSE window[n].coding]]

\* jerasure_matrix_decode is given the list as it is; an index that is not
\* one of the NUM_DATA + NUM_CODING blocks is outside its arrays
InRange(erasures) ==
    \A k \in 1..Len(erasures) : erasures[k] \in 0..(NUM_DATA + NUM_CODING - 1)

\* What decode_blocks does to the block: "ok" restores the bytes of the
\* erased data blobs from a coding blob that was not erased
decoded(window, before, block_start) ==
    LET coding_start == block_start + NUM_DATA - NUM_CODING
        left == CHOOSE i \in coding_start..(block_start + NUM_DATA - 1) :
                    before[i % WindowLen].coding # <<>>
        of == before[left % WindowLen].coding[1].payload.of
        dm == DataMissing(before, block_start)
    IN  [n \in Slots |->
            IF n \in block_start..(block_start + NUM_DATA - 1) /\ n \in dm
            THEN LET bytes == of[n - block_start]
                 IN  [window[n] EXCEPT !.data =
                         <<[window[n].data[1] EXCEPT !.index = bytes.index,
                                                     !.data_size = bytes.data_size,
                                                     !.payload = bytes.payload]>>]
            ELSE window[n]]

\* recover, after decode_blocks: the metadata of the first data blob that
\* was present, and the size read from the restored header
with_meta(window, before, block_start) ==
    LET dm == DataMissing(before, block_start)
        first == CHOOSE i \in (block_start..(block_start + NUM_DATA - 1)) \ dm :
                    \A j \in block_start..(i - 1) : j \in dm
        meta == before[first % WindowLen].data[1]
    IN  [n \in Slots |->
            IF n \in dm
            THEN [window[n] EXCEPT !.data =
                     <<set_size([window[n].data[1] EXCEPT !.addr = meta.addr],
                                window[n].data[1].data_size - BLOB_HEADER_SIZE)>>]
            ELSE window[n]]

RecoverResult(window, res, examined) ==
    [window |-> window, res |-> res, examined |-> examined]

\* recover with the placeholders allocated before the block is examined
RECURSIVE recover_allocate_first(_, _, _, _, _)
recover_allocate_first(window, b, blocks, dec, examined) ==
    IF b >= blocks THEN RecoverResult(window, "Ok", examined)
    ELSE LET block_start == b * NUM_DATA
             w1 == with_placeholders(window, block_start)
         IN  recover_allocate_first(w1, b + 1, blocks, dec, examined \cup {b})

\* recover(recycler, window, consumed, received) from block b on; dec[b] is
\* what the decoder does for block b: "ok", "fail" (a negative return) or,
\* when it is handed an index outside its arrays, also "crash"
RECURSIVE recover_from(_, _, _, _, _)
recover_from(window, b, blocks, dec, examined) ==
    IF b >= blocks THEN RecoverResult(window, "Ok", examined)
    ELSE LET block_start == b * NUM_DATA
             data_missing == Cardinality(DataMissing(window, block_start))
             coding_missing == Cardinality(CodingMissing(window, block_start))
             seen == examined \cup {b}
         IN  IF data_missing = 0 \/ data_missing + coding_missing > NUM_CODING
             THEN recover_from(window, b + 1, blocks, dec, seen)
             ELSE LET erasures == erasures_of(window, block_start)
                      w1 == with_placeholders(window, block_start)
                  IN  IF dec[b] = "fail" THEN RecoverResult(w1, "DecodeError", seen)
                      ELSE IF ~InRange(erasures)
                      THEN \* undefined behaviour in the decoder; if it returns,
                           \* locks[idx] is indexed out of bounds
                           RecoverResult(IF dec[b] = "crash" THEN w1
                                         ELSE decoded(w1, window, block_start),
                                         "panic", seen)
                      ELSE recover_from(with_meta(decoded(w1, window, block_start),
                                                  window, block_start),
                                        b + 1, blocks, dec, seen)

\* recover's num_blocks and the number of the block its block_start is in
num_blocks(consumed, received_index) == (received_index - consumed) \div NUM_DATA

first_block(consumed) == (consumed - (consumed % NUM_DATA)) \div NUM_DATA

recover_without_skip(window, consumed, received_index, dec) ==
    IF received_index <= consumed THEN RecoverResult(window, "Ok", {})
    ELSE recover_allocate_first(window, first_block(consumed),
                                first_block(consumed) + num_blocks(consumed, received_index),
                                dec, {})

recover(window, consumed, received_index, dec) ==
    IF received_index <= consumed THEN RecoverResult(window, "Ok", {})
    ELSE recover_from(window, first_block(consumed),
                      first_block(consumed) + num_blocks(consumed, received_index), dec, {})

\* The (consumed, received) recover is called with: the whole window, its
\* first block, ranges that start inside a block, and nothing received
Ranges ==
    {<<0, WindowLen>>, <<0, NUM_DATA>>, <<1, NUM_DATA + 3>>, <<1, WindowLen>>,
     <<NUM_DATA - 1, WindowLen>>, <<NUM_DATA, NUM_DATA>>}

\* The data and coding slots the model empties
ErasableData == {1, 3, 11, 13}

ErasableCoding == {12, 15}

Erased(window) ==
    Cardinality({n \in Slots : window[n].data = <<>>})
    + Cardinality({n \in Slots : window[n].coding = <<>> /\ n % NUM_DATA >= NUM_DATA - NUM_CODING})

InitEr ==
    /\ er_window \in {generate_window(addrs) : addrs \in AddressMaps}
    /\ er_orig = <<>>
    /\ er_before = <<>>
    /\ er_pc = "fill"
    /\ er_res = NoErRes
    /\ er_call = NoErCall
    /\ IdleEntry
    /\ IdleLog
    /\ IdleTick
    /\ IdleAcct
    /\ IdleHist
    /\ IdleChan

ErGenerateCoding ==
    /\ er_pc = "fill"
    /\ er_window' = generate_coding(er_window, ErBlocks)
    /\ er_orig' = er_window'
    /\ er_pc' = "coded"
    /\ UNCHANGED <<er_before, er_res, er_call, notEr>>

\* window[n].data = None
ErEraseData(n) ==
    /\ er_pc = "coded"
    /\ Erased(er_window) < MaxErased
    /\ er_window[n].data # <<>>
    /\ er_window' = [er_window EXCEPT ![n].data = <<>>]
    /\ UNCHANGED <<er_orig, er_before, er_pc, er_res, er_call, notEr>>

\* window[n].coding = None
ErEraseCoding(n) ==
    /\ er_pc = "coded"
    /\ Erased(er_window) < MaxErased
    /\ er_window[n].coding # <<>>
    /\ er_window' = [er_window EXCEPT ![n].coding = <<>>]
    /\ UNCHANGED <<er_orig, er_before, er_pc, er_res, er_call, notEr>>

\* recover(&recycler, &mut window, consumed, received); the call on the
\* whole window ends in "recovered", one on a part of it in "recovered_range"
ErRecover(consumed, received_index, dec) ==
    /\ er_pc = "coded"
    /\ LET r == recover(er_window, consumed, received_index, dec)
       IN  /\ er_window' = r.window
           /\ er_res' = [res |-> r.res, examined |-> r.examined,
                         consumed |-> consumed, received |-> received_index]
    /\ er_before' = er_window
    /\ er_pc' = IF consumed = 0 /\ received_index = WindowLen THEN "recovered"
                ELSE "recovered_range"
    /\ UNCHANGED <<er_orig, er_call, notEr>>

NextEr ==
    \/ ErGenerateCoding
    \/ \E b \in 0..(ErBlocks - 1), k \in ErasableData : ErEraseData(b * NUM_DATA + k)
    \/ \E b \in 0..(ErBlocks - 1), k \in ErasableCoding :
           ErEraseCoding(b * NUM_DATA + k)
    \/ \E range \in Ranges, dec \in [0..(ErBlocks - 1) -> {"ok", "fail", "crash"}] :
           ErRecover(range[1], range[2], dec)

SpecEr == InitEr /\ [][NextEr]_vars

\* The positions of block b, and the data slots of it that were empty when
\* recover was called
BlockOf(b) == (b * NUM_DATA)..(b * NUM_DATA + NUM_DATA - 1)

EmptiedData(b) == DataMissing(er_before, b * NUM_DATA)

EmptiedCoding(b) == CodingMissing(er_before, b * NUM_DATA)

AtMostMEmptied(b) ==
    Cardinality(EmptiedData(b)) + Cardinality(EmptiedCoding(b)) <= NUM_CODING

\* C27: on a block with coding generated and at most M slots emptied, in any
\* mix of data and coding slots, recover fills every emptied data slot with
\* a blob whose payload and metadata (size, address, index) are the
\* original's. The decoder reporting a failure is left out of the claim's
\* case.
C27_RecoverRestoresErasedData ==
    (er_pc = "recovered" /\ er_res.res # "DecodeError") =>
        \A b \in 0..(ErBlocks - 1) :
            AtMostMEmptied(b) =>
                \A n \in EmptiedData(b) : er_window[n].data = er_orig[n].data

\* C27, the part about the bytes: when recover returns Ok, every emptied data
\* slot of a block with at most M slots emptied has the original's index,
\* payload and size
RecoveredBytesAreOriginal ==
    (er_pc = "recovered" /\ er_res.res = "Ok") =>
        \A b \in 0..(ErBlocks - 1) :
            AtMostMEmptied(b) =>
                \A n \in EmptiedData(b) :
                    /\ er_window[n].data # <<>>
                    /\ Bytes(er_window[n].data[1]) = Bytes(er_orig[n].data[1])
                    /\ er_window[n].data[1].size = er_orig[n].data[1].size

\* C27 with a coding slot among the emptied ones: recover returns
MixedErasureReturns ==
    (/\ er_pc = "recovered"
     /\ er_res.res # "DecodeError"
     /\ \E b \in 0..(ErBlocks - 1) :
            AtMostMEmptied(b) /\ EmptiedData(b) # {} /\ EmptiedCoding(b) # {})
        => er_res.res = "Ok"

\* C27, the address: a recovered blob has the address of the original
RecoveredAddrIsOriginal ==
    (er_pc = "recovered" /\ er_res.res = "Ok") =>
        \A b \in 0..(ErBlocks - 1) :
            AtMostMEmptied(b) =>
                \A n \in EmptiedData(b) :
                    er_window[n].data[1].addr = er_orig[n].data[1].addr

\* A block with data slots only emptied has been recovered
DataOnlyRecovered ==
    /\ er_pc = "recovered"
    /\ er_res.res = "Ok"
    /\ \E b \in 0..(ErBlocks - 1) :
          /\ Cardinality(EmptiedData(b)) = NUM_CODING
          /\ \A n \in EmptiedData(b) :
                Bytes(er_window[n].data[1]) = Bytes(er_orig[n].data[1])

\* The blocks recover passes over: no data slot empty, or more than M slots
\* empty
Skipped(b) == EmptiedData(b) = {} \/ ~AtMostMEmptied(b)

\* C28: a block with more than M empty slots, or with no empty data slot, is
\* left by recover exactly as it was: no blob is allocated into an empty slot
\* and no blob that was there is changed
C28_SkippedBlockUntouched ==
    er_pc \in {"recovered", "recovered_range"} =>
        \A b \in 0..(ErBlocks - 1) :
            Skipped(b) => \A n \in BlockOf(b) : er_window[n] = er_before[n]

\* recover has passed over a block with more than M empty slots, data and
\* coding, and in the same call has filled the other block
C28_Witness ==
    /\ er_pc = "recovered"
    /\ er_res.res = "Ok"
    /\ \E b \in 0..(ErBlocks - 1) :
          /\ ~AtMostMEmptied(b)
          /\ EmptiedData(b) # {}
          /\ EmptiedCoding(b) # {}
          /\ b \in er_res.examined
          /\ \A n \in EmptiedData(b) : er_window[n].data = <<>>
    /\ er_window # er_before

\* The block whose decoding failed: the last one recover examined
FailedBlock == Max(er_res.examined)

\* C29: when the decoding of one block fails, recover still examines the
\* remaining blocks of the window in the same call, and the failed block's
\* missing data slots stay empty instead of holding placeholder blobs
C29_DecodeFailureIsLocal ==
    (er_pc = "recovered" /\ er_res.res = "DecodeError") =>
        /\ er_res.examined = 0..(ErBlocks - 1)
        /\ \A n \in EmptiedData(FailedBlock) : er_window[n].data = <<>>

\* C29, the first half alone: every block is examined
FailureExaminesAllBlocks ==
    (er_pc = "recovered" /\ er_res.res = "DecodeError") =>
        er_res.examined = 0..(ErBlocks - 1)

\* C29, the second half alone: the failed block's data slots stay empty
FailedBlockStaysEmpty ==
    (er_pc = "recovered" /\ er_res.res = "DecodeError") =>
        \A n \in EmptiedData(FailedBlock) : er_window[n].data = <<>>

\* What recover does when the decoding of a block fails: it returns the
\* error at once, with a placeholder in every slot of that block that was
\* empty and the blocks after it as they were
FailureEndsRecover ==
    (er_pc = "recovered" /\ er_res.res = "DecodeError") =>
        /\ er_res.examined = 0..FailedBlock
        /\ \A n \in EmptiedData(FailedBlock) : er_window[n].data = <<Allocated>>
        /\ \A n \in EmptiedCoding(FailedBlock) : er_window[n].coding = <<Allocated>>
        /\ \A b \in (FailedBlock + 1)..(ErBlocks - 1) :
              \A n \in BlockOf(b) : er_window[n] = er_before[n]

\* The decoding of the first block failed while the second had a data slot
\* to recover
FailedBeforeRecoverableBlock ==
    /\ er_pc = "recovered"
    /\ er_res.res = "DecodeError"
    /\ FailedBlock = 0
    /\ EmptiedData(1) # {}
    /\ AtMostMEmptied(1)

-----------------------------------------------------------------------------
(* generate_coding_blocks and decode_blocks on blocks of given lengths *)

\* The block lengths the calls are made with, in bytes
BlockLens == {8, 16, 32}

RECURSIVE SeqsUpTo(_, _)
SeqsUpTo(S, n) ==
    IF n = 0 THEN {<<>>}
    ELSE LET shorter == SeqsUpTo(S, n - 1)
         IN  shorter \cup {Append(q, x) : q \in {r \in shorter : Len(r) = n - 1}, x \in S}

BlockArgs == SeqsUpTo(BlockLens, MaxBlockArgs)

Returned(res, invoked) == [res |-> res, invoked |-> invoked]

\* generate_coding_blocks(coding, data), on the lengths of the blocks
generate_coding_blocks(coding, data) ==
    IF Len(data) = 0 THEN Returned("Ok", FALSE)
    ELSE LET block_len == data[1]
         IN  IF \E k \in 1..Len(data) : data[k] # block_len
             THEN Returned("InvalidBlockSize", FALSE)
             ELSE IF \E k \in 1..Len(coding) : coding[k] # block_len
             THEN Returned("InvalidBlockSize", FALSE)
             ELSE Returned("Ok", TRUE)

\* decode_blocks(data, coding, erasures), on the lengths of the blocks; ret
\* is what jerasure_matrix_decode returns
decode_blocks(data, coding, ret) ==
    IF Len(data) = 0 THEN Returned("Ok", FALSE)
    ELSE LET block_len == data[1]
         IN  IF \E k \in 1..Len(coding) : coding[k] # block_len
             THEN Returned("InvalidBlockSize", FALSE)
             ELSE IF \E k \in 1..Len(data) : data[k] # block_len
             THEN Returned("InvalidBlockSize", FALSE)
             ELSE Returned(IF ret < 0 THEN "DecodeError" ELSE "Ok", TRUE)

InitCoding ==
    /\ er_call \in {[NoErCall EXCEPT !.data = d, !.coding = c] :
                       d \in BlockArgs, c \in BlockArgs}
    /\ er_window = <<>>
    /\ er_orig = <<>>
    /\ er_before = <<>>
    /\ er_pc = "fill"
    /\ er_res = NoErRes
    /\ IdleEntry
    /\ IdleLog
    /\ IdleTick
    /\ IdleAcct
    /\ IdleHist
    /\ IdleChan

CallGenerateCodingBlocks ==
    /\ er_call.fn = "none"
    /\ LET r == generate_coding_blocks(er_call.coding, er_call.data)
       IN  er_call' = [er_call EXCEPT !.fn = "generate_coding_blocks",
                                      !.res = r.res, !.invoked = r.invoked]
    /\ UNCHANGED <<er_window, er_orig, er_before, er_pc, er_res, notEr>>

CallDecodeBlocks(ret) ==
    /\ er_call.fn = "none"
    /\ LET r == decode_blocks(er_call.data, er_call.coding, ret)
       IN  er_call' = [er_call EXCEPT !.fn = "decode_blocks",
                                      !.res = r.res, !.invoked = r.invoked]
    /\ UNCHANGED <<er_window, er_orig, er_before, er_pc, er_res, notEr>>

NextCoding ==
    \/ CallGenerateCodingBlocks
    \/ \E ret \in {-1, 0} : CallDecodeBlocks(ret)

SpecCoding == InitCoding /\ [][NextCoding]_vars

\* All the blocks of the call, data and coding
CallBlocks == er_call.data \o er_call.coding

SameLength == \A j, k \in 1..Len(CallBlocks) : CallBlocks[j] = CallBlocks[k]

TooShort == \E k \in 1..Len(CallBlocks) : CallBlocks[k] < 16

\* C30: generate_coding_blocks and decode_blocks return InvalidBlockSize,
\* without invoking the encoder or decoder, whenever the data and coding
\* blocks do not all have the same length or that length is below 16 bytes
C30_InvalidBlockSizeChecked ==
    (er_call.fn # "none" /\ (~SameLength \/ TooShort)) =>
        (er_call.res = "InvalidBlockSize" /\ ~er_call.invoked)

\* C30, the length below 16 bytes alone: blocks of one length under 16
\* bytes are refused
ShortBlocksRefused ==
    (er_call.fn # "none" /\ er_call.data # <<>> /\ SameLength /\ TooShort) =>
        (er_call.res = "InvalidBlockSize" /\ ~er_call.invoked)

\* C30, the part the functions check: with a data block given, a data or
\* coding block whose length is not the first data block's gives
\* InvalidBlockSize and the encoder or decoder is not invoked; and the
\* library is invoked only on blocks of one length
MismatchedBlocksRefused ==
    /\ (er_call.fn # "none" /\ er_call.data # <<>> /\ ~SameLength) =>
           (er_call.res = "InvalidBlockSize" /\ ~er_call.invoked)
    /\ er_call.invoked => (SameLength /\ er_call.res # "InvalidBlockSize")

\* Blocks of 8 bytes have gone through the decoder
ShortBlocksDecoded ==
    /\ er_call.fn = "decode_blocks"
    /\ er_call.data = <<8, 8>>
    /\ er_call.coding = <<8>>
    /\ er_call.invoked
    /\ er_call.res = "Ok"

\* C31: the encoder called with no data block (K = 0) is rejected:
\* generate_coding_blocks returns an error
C31_ZeroDataBlocksRejected ==
    (er_call.fn = "generate_coding_blocks" /\ er_call.data = <<>>) =>
        er_call.res \notin {"none", "Ok"}

\* What generate_coding_blocks does with no data block: it returns Ok
\* without a call of the encoder, whatever the coding blocks are
ZeroDataBlocksReturnOk ==
    (er_call.fn = "generate_coding_blocks" /\ er_call.data = <<>>) =>
        (er_call.res = "Ok" /\ ~er_call.invoked)

\* The encoder has been called with no data block and two coding blocks
ZeroDataBlocksEncoded ==
    /\ er_call.fn = "generate_coding_blocks"
    /\ er_call.data = <<>>
    /\ er_call.coding = <<16, 16>>

-----------------------------------------------------------------------------
(* Accountant: settlement at submission, conservation, trusted sources *)

\* The balances of a after tr.from, if it has a balance entry, is debited
Debited(a, tr) ==
    IF tr.from \in DOMAIN a.balances
    THEN Put(a.balances, tr.from, wrapping(a.balances[tr.from] - tr.asset))
    ELSE a.balances

\* The balances bal after asset is paid to key
Credited(bal, key, asset) ==
    Put(bal, key, IF key \in DOMAIN bal THEN wrapping(bal[key] + asset) ELSE asset)

\* C32: a conditional payment submitted when the last accepted time is
\* already at or past its date is settled at submission: the payee is
\* credited at once and the plan is not stored in the pending map
C32_DuePaymentSettledAtSubmission ==
    (acct_pc = "running") =>
        \A tr \in Submissions :
            LET r == process_transaction(acc, tr, hist_open)
            IN  (Applied(r) /\ OnDate(tr) /\ tr.plan.cond.dt <= acc.last_time) =>
                    /\ r.acc.pending = acc.pending
                    /\ tr.sig \notin DOMAIN r.acc.pending
                    /\ r.acc.balances =
                           Credited(Debited(acc, tr), tr.plan.pay.to, tr.plan.pay.asset)

\* After the mint's deposit, a timestamp and then a payment from alice to
\* bob due by then: bob holds the payment and nothing is pending
C32_Witness ==
    /\ acct_pc = "running"
    /\ acct_log = MintEntries(2)
    /\ acct_ops = 2
    /\ acct_ev.op = "process_transaction"
    /\ acct_ev.res = "Ok"
    /\ acc.last_time = 2
    /\ acc.signatures = {TransactionNew(MintKey, MintKey, 2, 0).sig,
                         TransactionNewOnDate("alice", "bob", 1, 2, 0).sig}
    /\ acc.pending = <<>>
    /\ get_balance(acc, "bob") = <<2>>
    /\ get_balance(acc, "alice") = <<0>>

-----------------------------------------------------------------------------
(* recover: the erasures list and the blocks examined *)

\* The erasures list recover hands to decode_blocks for the block
erasures_terminated(window, block_start) == erasures_of(window, block_start) \o <<-1>>

\* The blocks of the window recover would decode: a data slot is empty and
\* at most NUM_CODING slots are
Decodable(b) ==
    /\ DataMissing(er_window, b * NUM_DATA) # {}
    /\ Cardinality(DataMissing(er_window, b * NUM_DATA))
           + Cardinality(CodingMissing(er_window, b * NUM_DATA)) <= NUM_CODING

\* The entries of the list for the missing data blobs lie in 0..K and are
\* the blobs' positions in the block
DataIndicesAt(b) ==
    LET block_start == b * NUM_DATA
        e == erasures_terminated(er_window, block_start)
        nd == Cardinality(DataMissing(er_window, block_start))
    IN  /\ \A k \in 1..nd :
              /\ e[k] \in 0..(NUM_DATA - 1)
              /\ er_window[block_start + e[k]].data = <<>>
        /\ \A j, k \in 1..nd : j < k => e[j] < e[k]

\* The entries for the missing coding blobs lie in K..N and are K plus the
\* blobs' positions among the block's coding blobs
CodingIndicesAt(b) ==
    LET block_start == b * NUM_DATA
        coding_start == block_start + NUM_DATA - NUM_CODING
        e == erasures_terminated(er_window, block_start)
        nd == Cardinality(DataMissing(er_window, block_start))
    IN  \A k \in (nd + 1)..(Len(e) - 1) :
            /\ e[k] \in NUM_DATA..(NUM_DATA + NUM_CODING - 1)
            /\ er_window[coding_start + (e[k] - NUM_DATA)].coding = <<>>

\* The list has one entry for each empty slot and ends with -1
TerminatedAt(b) ==
    LET block_start == b * NUM_DATA
        e == erasures_terminated(er_window, block_start)
    IN  /\ Len(e) = Cardinality(DataMissing(er_window, block_start))
                    + Cardinality(CodingMissing(er_window, block_start)) + 1
        /\ e[Len(e)] = -1
        /\ \A k \in 1..(Len(e) - 1) : e[k] # -1

\* C33: in recover, every index written to the erasures list for a missing
\* data blob lies in 0..K and is its position in the block, every index
\* written for a missing coding blob lies in K..N and is K plus its position
\* among the block's M coding blobs, and the list ends with -1
C33_ErasureIndices ==
    (er_pc = "coded") =>
        \A b \in 0..(ErBlocks - 1) :
            Decodable(b) => (DataIndicesAt(b) /\ CodingIndicesAt(b) /\ TerminatedAt(b))

\* C33, the data indices and the terminator alone
DataErasureIndices ==
    (er_pc = "coded") =>
        \A b \in 0..(ErBlocks - 1) :
            Decodable(b) => (DataIndicesAt(b) /\ TerminatedAt(b))

\* C33, the coding indices alone
CodingErasureIndices ==
    (er_pc = "coded") =>
        \A b \in 0..(ErBlocks - 1) : Decodable(b) => CodingIndicesAt(b)

\* What recover writes for an empty coding slot: K plus the slot's position
\* in the block, which is from 2K - M on
CodingIndicesFromBlockStart ==
    (er_pc = "coded") =>
        \A b \in 0..(ErBlocks - 1) :
            Decodable(b) =>
                LET block_start == b * NUM_DATA
                    e == erasures_terminated(er_window, block_start)
                    nd == Cardinality(DataMissing(er_window, block_start))
                IN  \A k \in (nd + 1)..(Len(e) - 1) :
                        /\ e[k] >= 2 * NUM_DATA - NUM_CODING
                        /\ er_window[block_start + (e[k] - NUM_DATA)].coding = <<>>

\* A block about to be decoded with a data slot and its last coding slot empty
MixedErasureListed ==
    /\ er_pc = "coded"
    /\ Decodable(0)
    /\ erasures_terminated(er_window, 0) = <<1, 31, -1>>

\* The K-aligned blocks that lie wholly inside [consumed, received)
BlocksInside(consumed, received_index) ==
    {b \in 0..(ErBlocks - 1) :
        consumed <= b * NUM_DATA /\ b * NUM_DATA + NUM_DATA <= received_index}

\* C34: for every consumed < received, including a consumed that is no
\* multiple of K, one call of recover examines every K-aligned block that
\* lies wholly inside [consumed, received). Calls that end in an error or a
\* panic are left out.
C34_EveryBlockInsideExamined ==
    (/\ er_pc \in {"recovered", "recovered_range"}
     /\ er_res.res = "Ok"
     /\ er_res.consumed < er_res.received) =>
        BlocksInside(er_res.consumed, er_res.received) \subseteq er_res.examined

\* C34 for a consumed that is a multiple of K
AlignedRangeExamined ==
    (/\ er_pc \in {"recovered", "recovered_range"}
     /\ er_res.res = "Ok"
     /\ er_res.consumed < er_res.received
     /\ er_res.consumed % NUM_DATA = 0) =>
        BlocksInside(er_res.consumed, er_res.received) \subseteq er_res.examined

\* The blocks a call that returns Ok examines: (received - consumed) / K
\* blocks, from the block consumed is in
ExaminedFromConsumedBlock ==
    (/\ er_pc \in {"recovered", "recovered_range"}
     /\ er_res.res = "Ok"
     /\ er_res.consumed < er_res.received) =>
        er_res.examined =
            {first_block(er_res.consumed) + i :
                i \in 0..(num_blocks(er_res.consumed, er_res.received) - 1)}

\* recover(K - 1, 2K) has returned Ok with the second block's empty data
\* slot still empty
SecondBlockNotExamined ==
    /\ er_pc = "recovered_range"
    /\ er_res.res = "Ok"
    /\ er_res.consumed = NUM_DATA - 1
    /\ er_res.received = 2 * NUM_DATA
    /\ er_res.examined = {0}
    /\ er_window[NUM_DATA + 1].data = <<>>
    /\ Cardinality(DataMissing(er_window, NUM_DATA)) = 1

-----------------------------------------------------------------------------
(* Accountant: conservation and the sign of the balances *)

RECURSIVE SumOver(_, _)
SumOver(f, S) ==
    IF S = {} THEN 0
    ELSE LET k == CHOOSE x \in S : TRUE
         IN  f[k] + SumOver(f, S \ {k})

\* The sum of all balances, and the amounts held by the pending plans
SumBalances(a) == SumOver(a.balances, DOMAIN a.balances)

Held(a) == SumOver([s \in DOMAIN a.pending |-> a.pending[s].pay.asset], DOMAIN a.pending)

\* The accountant was created from a mint of amount tokens (Accountant::new)
FromMint(tokens) == acct_log = MintEntries(tokens)

\* Every transaction applied so far moved a positive amount
PositiveAmounts(a) == \A sig \in a.signatures : sig[3] > 0

\* C35: after any sequence of accepted immediate transfers, conditional
\* transfers, timestamp witnesses and signature witnesses on an accountant
\* created from a mint of amount A, the sum of all balances plus the amounts
\* held by pending plans equals A
C35_FundsConserved ==
    \A tokens \in {2, IntMax} :
        (acct_pc = "running" /\ FromMint(tokens)) =>
            SumBalances(acc) + Held(acc) = tokens

\* C35 for accountants on which every applied transaction moved a positive
\* amount
PositiveAmountsConserved ==
    \A tokens \in {2, IntMax} :
        (acct_pc = "running" /\ FromMint(tokens) /\ PositiveAmounts(acc)) =>
            SumBalances(acc) + Held(acc) = tokens

\* C35 for a payment from an account that has a balance entry, short of
\* overflow: what is debited is held or credited
FundedSenderConserves ==
    (acct_pc = "running") =>
        \A tr \in Submissions :
            LET r == process_transaction(acc, tr, hist_open)
            IN  (/\ Applied(r)
                 /\ tr.from \in DOMAIN acc.balances
                 /\ SumBalances(r.acc) \in IntMin..IntMax
                 /\ \A key \in DOMAIN r.acc.balances :
                        Funds(acc, key) + (IF key = tr.plan.pay.to THEN tr.asset ELSE 0)
                            - (IF key = tr.from THEN tr.asset ELSE 0) \in IntMin..IntMax
                 /\ Funds(acc, tr.from) - tr.asset \in IntMin..IntMax) =>
                    SumBalances(r.acc) + Held(r.acc) = SumBalances(acc) + Held(acc)

\* bob, who has no balance entry, has paid -1 to alice out of a mint of 2
UnfundedNegativePaymentAccepted ==
    /\ acct_pc = "running"
    /\ FromMint(2)
    /\ acct_ops = 1
    /\ acct_ev.op = "process_transaction"
    /\ acct_ev.res = "Ok"
    /\ acc.balances = [key \in {"alice"} |-> 1]
    /\ acc.pending = <<>>

NonNegative(a) == \A key \in DOMAIN a.balances : a.balances[key] >= 0

\* C36: no account balance is ever negative, after any sequence of
\* process_transaction calls and witnesses and after the replay of any entry
\* log through new_from_entries
C36_BalancesNeverNegative ==
    (acct_pc \in {"replay", "running"}) => NonNegative(acc)

\* C36 for the replay alone: new_from_entries returns no negative balance
ReplayedBalancesNonNegative ==
    (acct_pc = "running" /\ acct_ops = 0) => NonNegative(acc)

\* C36 for process_transaction alone: a submission accepted by an accountant
\* without a negative balance leaves none
AcceptedSubmissionKeepsNonNegative ==
    (acct_pc = "running" /\ NonNegative(acc)) =>
        \A tr \in Submissions :
            LET r == process_transaction(acc, tr, hist_open)
            IN  Applied(r) => NonNegative(r.acc)

\* C36 for amounts above zero: an accountant created from a mint, on which
\* every applied transaction moved a positive amount, has no negative
\* balance
PositiveAmountsNonNegative ==
    \A tokens \in {2, IntMax} :
        (acct_pc = "running" /\ FromMint(tokens) /\ PositiveAmounts(acc)) =>
            NonNegative(acc)

\* The replay of the overspent log has left alice at -1
OverspentLogReplayed ==
    /\ acct_pc = "running"
    /\ acct_log = OverspentLog
    /\ acct_ops = 0
    /\ get_balance(acc, "alice") = <<-1>>
    /\ get_balance(acc, "bob") = <<3>>

-----------------------------------------------------------------------------
(* The accountant and the logger thread over the historian's two channels *)

\* Historian::new makes both channels with sync_channel(1000); ChannelCap
\* stands for the 1000. MaxChanEvents transactions fill both channels and
\* leave one event and one entry in the hands of their senders.
MaxChanEvents == 2 * ChannelCap + 2

\* The event of the k-th accepted transaction; its signature is new, since
\* process_verified_transaction has reserved it
ChanEvent(k) == new_claim(k, sign_claim_data(k))

\* SyncSender::send on a channel holding queue: it returns when there is room
HasRoom(queue) == Len(queue) < ChannelCap

InitChan ==
    /\ hist_start = HashDefault
    /\ hist_ms = FALSE
    /\ StartHist
    /\ IdleChan
    /\ IdleEntry
    /\ IdleLog
    /\ IdleTick
    /\ IdleAcct
    /\ IdleEr

\* process_transaction, accepted: the event is sent to the historian; the
\* call returns if the event channel has room and stays in send otherwise
ChanProcessTransaction ==
    /\ chan_acct = <<>>
    /\ chan_n < MaxChanEvents
    /\ chan_n' = chan_n + 1
    /\ IF HasRoom(hist_in)
       THEN /\ hist_in' = Append(hist_in, ChanEvent(chan_n + 1))
            /\ chan_acct' = <<>>
       ELSE /\ hist_in' = hist_in
            /\ chan_acct' = <<ChanEvent(chan_n + 1)>>
    /\ UNCHANGED <<hist_start, hist_ms, hist, hist_in_open, hist_out, hist_out_open,
                   hist_sent, chan_logger, notChan>>

\* The send of process_transaction finds room and the call returns
ChanSendReturns ==
    /\ chan_acct # <<>>
    /\ HasRoom(hist_in)
    /\ hist_in' = Append(hist_in, chan_acct[1])
    /\ chan_acct' = <<>>
    /\ UNCHANGED <<hist_start, hist_ms, hist, hist_in_open, hist_out, hist_out_open,
                   hist_sent, chan_logger, chan_n, notChan>>

\* Accountant::sync: the entry channel is drained with try_recv
ChanSync ==
    /\ chan_acct = <<>>
    /\ hist_out # <<>>
    /\ hist_out' = <<>>
    /\ UNCHANGED <<hist_start, hist_ms, hist, hist_in, hist_in_open, hist_out_open,
                   hist_sent, chan_acct, chan_logger, chan_n, notChan>>

\* One turn of log_events' loop that receives an event: the entry is sent if
\* the entry channel has room, and the thread stays in send otherwise
ChanLoggerReceives ==
    /\ chan_logger = <<>>
    /\ hist_in # <<>>
    /\ LET r == received(Logged(hist, <<>>), Head(hist_in), TRUE)
       IN  /\ hist' = r.h
           /\ IF r.out = <<>> \/ HasRoom(hist_out)
              THEN /\ hist_out' = hist_out \o r.out
                   /\ chan_logger' = <<>>
              ELSE /\ hist_out' = hist_out
                   /\ chan_logger' = r.out
    /\ hist_in' = Tail(hist_in)
    /\ UNCHANGED <<hist_start, hist_ms, hist_in_open, hist_out_open, hist_sent,
                   chan_acct, chan_n, notChan>>

\* The logger's send finds room
ChanLoggerSendReturns ==
    /\ chan_logger # <<>>
    /\ HasRoom(hist_out)
    /\ hist_out' = hist_out \o chan_logger
    /\ chan_logger' = <<>>
    /\ UNCHANGED <<hist_start, hist_ms, hist, hist_in, hist_in_open, hist_out_open,
                   hist_sent, chan_acct, chan_n, notChan>>

\* One turn that finds the event channel empty, and the hash that follows
ChanLoggerEmpty ==
    /\ chan_logger = <<>>
    /\ hist_in = <<>>
    /\ hist.num_hashes < MaxHistHashes
    /\ hist' = empty(Logged(hist, <<>>)).h
    /\ UNCHANGED <<hist_start, hist_ms, hist_in, hist_in_open, hist_out, hist_out_open,
                   hist_sent, chan_acct, chan_logger, chan_n, notChan>>

NextChan ==
    \/ ChanProcessTransaction
    \/ ChanSendReturns
    \/ ChanSync
    \/ ChanLoggerReceives
    \/ ChanLoggerSendReturns
    \/ ChanLoggerEmpty

SpecChan == InitChan /\ [][NextChan]_vars

\* process_transaction is in send and the event channel is full
AcctBlocked == chan_acct # <<>> /\ ~HasRoom(hist_in)

\* The logger thread is in send and the entry channel is full
LoggerBlocked == chan_logger # <<>> /\ ~HasRoom(hist_out)

\* C37: with the historian's two bounded channels and an accountant that
\* drains the entry channel only in sync(), every call of process_transaction
\* returns: no reachable state has the accountant blocked sending an event
\* while the logger thread is blocked sending an entry
C37_NeverBothBlocked == ~(AcctBlocked /\ LoggerBlocked)

\* While fewer transactions than the two channels hold, plus two, have been
\* submitted since the accountant was created, the two are not both blocked
FewSubmissionsNeverBothBlocked ==
    (chan_n < 2 * ChannelCap + 2) => ~(AcctBlocked /\ LoggerBlocked)

\* The logger blocks only behind a full entry channel, which only sync
\* empties, and sync is not called from inside process_transaction
BothBlockedIsFinal ==
    (AcctBlocked /\ LoggerBlocked) =>
        /\ Len(hist_in) = ChannelCap
        /\ Len(hist_out) = ChannelCap
        /\ ~ENABLED NextChan

\* Both channels are full, with the accountant and the logger in send
BothBlocked ==
    /\ AcctBlocked
    /\ LoggerBlocked
    /\ chan_n = 2 * ChannelCap + 2

-----------------------------------------------------------------------------
(* The tick auditor on a slice cut in two *)

\* The two pieces of slice cut after its first k entries
FirstPiece(slice, k) == SubSeq(slice, 1, k)

SecondPiece(slice, k) == SubSeq(slice, k + 1, Len(slice))

\* Both pieces audited in sequence, the carry the first call leaves going
\* into the second: the slice passes when both calls return true
SplitAudit(slice, k, count, hashes_per_tick) ==
    LET r1 == verify_tick_hash_count(FirstPiece(slice, k), count, hashes_per_tick)
        r2 == verify_tick_hash_count(SecondPiece(slice, k), r1.count, hashes_per_tick)
    IN  [ok |-> r1.ok /\ r2.ok, count |-> r2.count, first |-> r1, second |-> r2]

Building == tick_pc \in {"build", "build2"}

\* C38: for every entry slice, every split point and every carry-in,
\* auditing the two pieces in sequence with verify_tick_hash_count, with the
\* carry passed from the first call to the second, gives the same verdict
\* and the same carry-out as auditing the whole slice in one call
C38_SplitAuditAgrees ==
    Building =>
        \A k \in 0..Len(tick_slice), h \in 0..MaxHashesPerTick :
            LET whole == verify_tick_hash_count(tick_slice, tick_hash_count, h)
                split == SplitAudit(tick_slice, k, tick_hash_count, h)
            IN  split.ok = whole.ok /\ split.count = whole.count

\* C38 with the second call's verdict taken as the verdict of the two
SplitAuditAgreesOnLastVerdict ==
    Building =>
        \A k \in 0..Len(tick_slice), h \in 0..MaxHashesPerTick :
            LET whole == verify_tick_hash_count(tick_slice, tick_hash_count, h)
                split == SplitAudit(tick_slice, k, tick_hash_count, h)
            IN  split.second.ok = whole.ok /\ split.count = whole.count

\* C38 with the second call left out when the first returns false
SplitAuditAgreesStoppingAtFalse ==
    Building =>
        \A k \in 0..Len(tick_slice), h \in 0..MaxHashesPerTick :
            LET whole == verify_tick_hash_count(tick_slice, tick_hash_count, h)
                split == SplitAudit(tick_slice, k, tick_hash_count, h)
            IN  IF split.first.ok
                THEN split.second.ok = whole.ok /\ split.count = whole.count
                ELSE ~whole.ok /\ split.first.count = whole.count

\* C38 where the first call returns true: the second call returns what the
\* call on the whole slice returns, and leaves the same carry
SplitAgreesWhenFirstPasses ==
    Building =>
        \A k \in 0..Len(tick_slice), h \in 0..MaxHashesPerTick :
            LET whole == verify_tick_hash_count(tick_slice, tick_hash_count, h)
                split == SplitAudit(tick_slice, k, tick_hash_count, h)
            IN  split.first.ok =>
                    (split.ok = whole.ok /\ split.count = whole.count)

\* A first piece that stops where the carry has reached hashes_per_tick,
\* before a tick of no hashes: the whole slice passes, the first piece does
\* not
FullCarryAtSplit ==
    /\ tick_pc = "build"
    /\ tick_hash_count = 0
    /\ Len(tick_slice) = 2
    /\ ~is_tick(tick_slice[1]) /\ tick_slice[1].num_hashes = 2
    /\ is_tick(tick_slice[2]) /\ tick_slice[2].num_hashes = 0
    /\ verify_tick_hash_count(tick_slice, 0, 2).ok
    /\ ~SplitAudit(tick_slice, 1, 0, 2).first.ok

-----------------------------------------------------------------------------
(* The trusted time sources *)

\* The timestamp witnesses that can reach the accountant
TimestampEvents == {EventTimestamp(from, dt) : from \in Keys, dt \in WitnessDates}

\* C39: time_sources gains a member only while last_time is still epoch
\* zero, and the member it gains is the sender of the timestamp witness being
\* applied; once last_time has advanced no event adds an account, and no
\* event removes one, so the trusted accounts are at most those that sent a
\* timestamp witness up to the first advance
C39_TimeSourcesOnlyAtEpochZero ==
    /\ (acct_pc = "new") => acc.time_sources = {}
    /\ \A log \in InitialLogs : new_from_entries(log).time_sources = {}
    /\ \A event \in Events(acc) \cup TimestampEvents, deposits \in BOOLEAN :
           \A o \in Orders(acc, event.kind) :
               LET r == process_verified_event(acc, event, deposits, o).acc
                   gained == r.time_sources \ acc.time_sources
               IN  /\ acc.time_sources \subseteq r.time_sources
                   /\ (gained # {}) =>
                          /\ acc.last_time = 0
                          /\ event.kind = "Timestamp"
                          /\ gained = {event.from}
                   /\ (acc.last_time # 0) => r.time_sources = acc.time_sources
    /\ \A tr \in Submissions, send_ok \in BOOLEAN :
           process_transaction(acc, tr, send_ok).acc.time_sources = acc.time_sources
    /\ (acc.last_time # 0) => acc.time_sources # {}

\* alice's timestamp at epoch zero made her a source and left last_time at
\* zero, then bob's timestamp 1 made bob a source and advanced last_time:
\* from here on no timestamp adds an account
C39_Witness ==
    /\ acct_pc = "running"
    /\ acct_ops = 2
    /\ acct_ev.op = "process_verified_timestamp"
    /\ acct_ev.from = "bob" /\ acct_ev.dt = 1
    /\ acc.last_time = 1
    /\ acc.time_sources = {"alice", "bob"}

\* alice's timestamp advanced last_time, and bob's timestamp after it was
\* ignored: bob is not a source
LateSourceIgnored ==
    /\ acct_pc = "running"
    /\ acct_ops = 2
    /\ acct_ev.op = "process_verified_timestamp"
    /\ acct_ev.from = "bob"
    /\ acc.last_time = 1
    /\ acc.time_sources = {"alice"}

====
